---- MODULE Spec2Model ----
(***************************************************************************)
(* Model of the battery management script src/bms.py: the startup          *)
(* self-test, the main polling loop with its balance decision, the balance *)
(* operation balance_battery_voltages with its verification and the        *)
(* balancer_failed latch, the manual trigger /api/balance of the web       *)
(* thread, and the temperature read read_ntc_sensors with its two retry    *)
(* budgets.  Further specifications over the same variables model parts on *)
(* their own: the temperature checks, check_for_issues, the voltage read,  *)
(* the response validation and its checksum, the accesses to web_data      *)
(* under data_lock, concurrent requests to /api/balance, the unit reads of *)
(* a poll with their ports, the event log, and the watchdog pet thread.    *)
(*                                                                         *)
(* Voltages are integers in units of 0.005 V (19.00 V = 3800), so that     *)
(* min_voltage_delta = 0.01 V is 2 units and a change smaller than it is   *)
(* representable.  Time is counted in poll cycles: rest_elapsed is         *)
(* time.time() - last_balance_time, saturating above the rest period.      *)
(***************************************************************************)
EXTENDS Integers, Sequences, FiniteSets

VARIABLES
    pc,               \* position of the main thread
    retries,          \* startup_self_test: retries
    pairs,            \* startup_self_test: the (source, dest) pairs left to test
    alerts,           \* startup_self_test: alerts of the running attempt
    startup_failed,   \* global startup_failed
    startup_alerts,   \* global startup_alerts
    balancer_failed,  \* global balancer_failed (the latch)
    balancing_active, \* global balancing_active
    rest_elapsed,     \* time.time() - last_balance_time, in poll cycles, saturating
    relays,           \* set of relay lines whose GPIO pin is HIGH
    dcdc,             \* DC-DC converter relay pin is HIGH
    battery_voltages, \* global battery_voltages of the running poll
    temps_alerts,     \* main: temps_alerts of the running poll
    any_low_temp,     \* main: any_low_temp of the running poll
    alert_needed,     \* main: alert_needed of the running poll
    all_alerts,       \* main: all_alerts of the running poll
    op,               \* the locals of the running balance operation / balance test
    web_data,         \* global web_data (the published snapshot)
    ntc,              \* the locals of a running read_ntc_sensors call
    topo,             \* the configuration examined and the last channel looked up
    startup_set,      \* global startup_set
    startup_median,   \* global startup_median
    startup_offsets,  \* global startup_offsets
    offsets_file,     \* the offsets stored in offsets.txt
    raw_temps,        \* main: raw_temps of the poll (startup: all_initial_temps)
    calibrated_temps, \* main: calibrated_temps of the poll
    bank_stats,       \* main: bank_stats of the poll
    previous_temps,   \* global previous_temps
    previous_bank_medians, \* global previous_bank_medians
    run_count,        \* global run_count, saturating at 1
    calibrating,      \* the offsets were computed from the raw values of this read
    alarm,            \* AlarmRelayPin is HIGH
    vread,            \* the locals of a running read_voltage_with_retry call
    sync,             \* data_lock, the request of the web thread, the update count
    event_log,        \* global event_log
    alive_timestamp,  \* global alive_timestamp, in seconds
    wd_thread,        \* the watchdog pet thread, if started: its state, its next check
    clock             \* time.time(), in seconds since main entered its loop

vars == <<pc, retries, pairs, alerts, startup_failed, startup_alerts,
          balancer_failed, balancing_active, rest_elapsed, relays, dcdc,
          battery_voltages, temps_alerts, any_low_temp, alert_needed,
          all_alerts, op, web_data, ntc, topo, startup_set, startup_median,
          startup_offsets, offsets_file, raw_temps, calibrated_temps, bank_stats,
          previous_temps, previous_bank_medians, run_count, calibrating, alarm,
          vread, sync, event_log, alive_timestamp, wd_thread, clock>>

-----------------------------------------------------------------------------
(* Configuration (settings) of the modelled installation.                   *)

num_series_banks == 2
Banks == 1..num_series_banks

VoltageDifferenceToBalance == 20
BalanceRestPeriodSeconds == 1
LowVoltageThresholdPerBattery == 3700
HighVoltageThresholdPerBattery == 4200
min_voltage_delta == 2

\* relay_mapping: the relay lines of every ordered pair of distinct banks
relay_mapping == [p \in {<<1, 2>>, <<2, 1>>} |->
                    IF p = <<1, 2>> THEN {0, 2} ELSE {1, 3}]

\* bounds of the model
MaxLoopSamples == 2

None == -1

\* values read_voltage_with_retry delivers in the model (None: no reading)
PollVolts(bank) == IF bank = 1 THEN {0, 3820, 4100} ELSE {0, 3800, 3820}
PollReadings == {f \in [Banks -> UNION {PollVolts(b) : b \in Banks}] :
                   \A b \in Banks : f[b] \in PollVolts(b)}
InitHighReads == {None, 4100}
InitLowReads == {None, 0, 3800}
LoopHighReads == {None, 4060}
LoopLowReads == {None, 3830}
FinalHighReads == {None, 4060, 4099, 4100, 4101}
FinalLowReads == {None, 3799, 3800, 3801, 3830}

-----------------------------------------------------------------------------
(* Helpers.                                                                 *)

Abs(x) == IF x < 0 THEN -x ELSE x

Max(s) == CHOOSE x \in {s[i] : i \in 1..Len(s)} :
             \A y \in {s[i] : i \in 1..Len(s)} : y <= x
Min(s) == CHOOSE x \in {s[i] : i \in 1..Len(s)} :
             \A y \in {s[i] : i \in 1..Len(s)} : x <= y

\* list.index(v) + 1: the first position holding v
IndexOf(s, v) == CHOOSE i \in 1..Len(s) :
                    s[i] = v /\ \A j \in 1..(i - 1) : s[j] # v

OrZero(v) == IF v = None THEN 0 ELSE v

NoOp == [high |-> 0, low |-> 0, is_heating |-> FALSE,
         initial_high_v |-> 0, initial_low_v |-> 0,
         voltage_high |-> 0, voltage_low |-> 0, n |-> 0, outcome |-> "none"]

NoVread == [state |-> "idle", bank_id |-> 0, attempt |-> 0, rounds |-> <<>>,
            result |-> None]

\* data_lock free, no request of the web thread in progress
NoSync == [lock |-> "free", gen |-> 0, step |-> 0, reader |-> "idle", rstep |-> 0,
           seen |-> <<>>, committed |-> {}, requests |-> <<>>]

NoResult == [kind |-> "none", slave |-> 0, count |-> 0]

NoNtc == [state |-> "idle", max_retries |-> 0, slave_addr |-> 0, attempt |-> 0,
          network_retry_count |-> 0, device_failures |-> 0, attempts |-> 0,
          only_timeouts |-> TRUE, result |-> NoResult]

NoTopo == [banks |-> 0, sensors_per_bank |-> 0, number_parallel |-> 0,
           queried |-> FALSE, ch |-> 0, bank |-> None, bat_id |-> 0, local_ch |-> 0]

\* an optional float: Python None, or a number
Nothing == <<>>
Some(v) == <<v>>

\* the temperature globals as the module creates them, no poll read yet
TempIdle ==
    /\ startup_set = FALSE
    /\ startup_median = Nothing
    /\ startup_offsets = Nothing
    /\ offsets_file = Nothing
    /\ raw_temps = <<>>
    /\ calibrated_temps = <<>>
    /\ bank_stats = <<>>
    /\ previous_temps = <<>>
    /\ previous_bank_medians = <<>>
    /\ run_count = 0
    /\ calibrating = FALSE

-----------------------------------------------------------------------------
(* Actuators.                                                               *)

\* mutant: the lines of the pair are asserted before all lines are deasserted
RelayWrites_assert_first(high, low) ==
    IF high # 0 /\ low # 0 /\ (high > num_series_banks \/ low > num_series_banks)
    THEN <<>>
    ELSE IF high = 0 /\ low = 0
    THEN [i \in 1..4 |-> <<i - 1, FALSE>>]
    ELSE IF <<high, low>> \in DOMAIN relay_mapping
    THEN SelectSeq([i \in 1..4 |-> <<i - 1, TRUE>>],
                   LAMBDA w : w[1] \in relay_mapping[<<high, low>>])
         \o [i \in 1..4 |-> <<i - 1, FALSE>>]
    ELSE <<>>

\* set_relay_connection(high, low, settings): its GPIO.output calls in order,
\* each <<relay line, level>>; the lines of a pair are taken in ascending
\* order, and a listed index outside 0..3 is no line and is passed over
RelayWrites(high, low) ==
    IF high # 0 /\ low # 0 /\ (high > num_series_banks \/ low > num_series_banks)
    THEN <<>>
    ELSE IF high = 0 /\ low = 0
    THEN [i \in 1..4 |-> <<i - 1, FALSE>>]
    ELSE IF <<high, low>> \in DOMAIN relay_mapping
    THEN [i \in 1..4 |-> <<i - 1, FALSE>>]
         \o SelectSeq([i \in 1..4 |-> <<i - 1, TRUE>>],
                      LAMBDA w : w[1] \in relay_mapping[<<high, low>>])
    ELSE <<>>

\* set_relay_connection(high, low, settings): the relay lines that are HIGH
\* afterwards, given the lines that were HIGH before: a line keeps the level
\* of the last write to it
set_relay_connection(high, low, before) ==
    LET writes == RelayWrites(high, low)
        Last(r) == CHOOSE i \in 0..Len(writes) :
                      /\ i # 0 => writes[i][1] = r
                      /\ \A j \in (i + 1)..Len(writes) : writes[j][1] # r
    IN {r \in 0..3 : IF Last(r) = 0 THEN r \in before ELSE writes[Last(r)][2]}

\* mutant: the converter pin is driven HIGH whatever turn_on says
control_dcdc_converter_stuck(turn_on) == TRUE

\* control_dcdc_converter(turn_on, settings): the level of DC_DC_RelayPin
control_dcdc_converter(turn_on) == turn_on

-----------------------------------------------------------------------------
(* Issue aggregation.                                                       *)

\* mutant: a voltage below the low threshold is not reported
VoltageAlerts_no_low(i, v) ==
    IF v = None \/ v = 0 THEN {<<"Zero voltage", i>>}
    ELSE IF v > HighVoltageThresholdPerBattery THEN {<<"High voltage", i>>}
    ELSE {}

\* the alert check_for_issues raises for bank i with voltage v, if any
VoltageAlerts(i, v) ==
    IF v = None \/ v = 0 THEN {<<"Zero voltage", i>>}
    ELSE IF v > HighVoltageThresholdPerBattery THEN {<<"High voltage", i>>}
    ELSE IF v < LowVoltageThresholdPerBattery THEN {<<"Low voltage", i>>}
    ELSE {}

\* mutant: the latch raises the flag but adds no alert
check_for_issues_no_latch(voltages, talerts, sfailed, salerts, bfailed) ==
    LET valerts == UNION {VoltageAlerts(i, voltages[i]) : i \in 1..Len(voltages)}
        needed  == sfailed \/ bfailed \/ valerts # {} \/ talerts # {}
    IN  [alert_needed |-> needed,
         alarm |-> needed,
         alerts |-> (IF sfailed /\ salerts # {} THEN {<<"Startup failures", 0>>} ELSE {})
                    \cup valerts \cup talerts]

\* check_for_issues(voltages, temps_alerts, settings) -> (alert_needed, alerts)
check_for_issues(voltages, talerts, sfailed, salerts, bfailed) ==
    LET valerts == UNION {VoltageAlerts(i, voltages[i]) : i \in 1..Len(voltages)}
        needed  == sfailed \/ bfailed \/ valerts # {} \/ talerts # {}
    IN  [alert_needed |-> needed,
         alarm |-> needed,
         alerts |-> (IF sfailed /\ salerts # {} THEN {<<"Startup failures", 0>>} ELSE {})
                    \cup (IF bfailed THEN {<<"Balancer hardware failure", 0>>} ELSE {})
                    \cup valerts \cup talerts]

-----------------------------------------------------------------------------
(* Balance decision and verification.                                       *)

\* mutant: the decision without the heating bypass of the spread check
BalanceDecision_no_heating(bfailed, active, needed, low_temp, max_v, min_v, elapsed) ==
    /\ ~bfailed
    /\ \/ active
       \/ /\ ~needed
          /\ max_v - min_v > VoltageDifferenceToBalance
          /\ min_v > 0
          /\ elapsed > BalanceRestPeriodSeconds

\* main: the condition under which balance_battery_voltages is called
BalanceDecision(bfailed, active, needed, low_temp, max_v, min_v, elapsed) ==
    /\ ~bfailed
    /\ \/ active
       \/ /\ ~needed
          /\ (low_temp \/ max_v - min_v > VoltageDifferenceToBalance)
          /\ min_v > 0
          /\ elapsed > BalanceRestPeriodSeconds

\* mutant: the temperature-alert guard is missing
SkipForTempAlerts_never(talerts) == FALSE

\* balance_battery_voltages: "Skip if temp alerts"
SkipForTempAlerts(talerts) == talerts # {}

\* balance_battery_voltages: "Skip if low is zero" (None == 0.0 is False)
SkipForZeroDest(initial_low_v) == initial_low_v = 0

\* balance_battery_voltages: the verification runs only on 3 or more samples
EnoughSamples(n) == n >= 3

\* balance_battery_voltages: the failure condition of the verification
VerificationFails(high_change, low_change, min_delta) ==
    \/ high_change >= 0
    \/ low_change <= 0
    \/ Abs(high_change) < min_delta
    \/ low_change < min_delta

\* mutant: the flag is assigned the result of the last verification
LatchAfter_assign(bfailed, failed) == failed

\* balance_battery_voltages: balancer_failed after a verification
LatchAfter(bfailed, failed) == bfailed \/ failed

-----------------------------------------------------------------------------
(* The main loop: one poll cycle.                                           *)

\* state of the calls and lookups examined on their own
temp_vars == <<startup_set, startup_median, startup_offsets, offsets_file,
               raw_temps, calibrated_temps, bank_stats, previous_temps,
               previous_bank_medians, run_count, calibrating>>

call_vars == <<ntc, topo, temp_vars, vread, sync,
               event_log, alive_timestamp, wd_thread, clock>>

startup_vars == <<retries, pairs, alerts, startup_failed, startup_alerts>>

\* main, from the top of the while loop to the balance decision, and, when the
\* decision calls it, balance_battery_voltages up to the start of its timed loop
Poll ==
    /\ pc = "poll"
    /\ \E talerts \in {{}, {<<"Temp anomaly", 0>>}}, low_temp \in BOOLEAN,
          bv \in PollReadings :
        LET volts == [i \in 1..num_series_banks |-> bv[i]]
            chk == check_for_issues(volts, talerts, startup_failed,
                                    startup_alerts, balancer_failed)
            max_v == Max(volts)
            min_v == Min(volts)
            high_b == IndexOf(volts, max_v)
            low_b == IndexOf(volts, min_v)
        IN  /\ battery_voltages' = volts
            /\ temps_alerts' = talerts
            /\ any_low_temp' = low_temp
            /\ alert_needed' = chk.alert_needed
            /\ all_alerts' = chk.alerts
            /\ alarm' = chk.alarm
            /\ IF ~BalanceDecision(balancer_failed, balancing_active,
                                   chk.alert_needed, low_temp, max_v, min_v,
                                   rest_elapsed)
               THEN /\ pc' = "publish"
                    /\ op' = NoOp
                    /\ UNCHANGED <<balancing_active, relays, dcdc, web_data>>
               ELSE IF SkipForTempAlerts(talerts)
               THEN /\ pc' = "publish"
                    /\ op' = [NoOp EXCEPT !.high = high_b, !.low = low_b,
                                          !.is_heating = low_temp,
                                          !.outcome = "skipped_alerts"]
                    /\ balancing_active' = FALSE
                    /\ UNCHANGED <<relays, dcdc, web_data>>
               ELSE \E ih \in InitHighReads, il \in InitLowReads :
                    LET entry == [high |-> high_b, low |-> low_b,
                                  is_heating |-> low_temp,
                                  initial_high_v |-> ih, initial_low_v |-> il,
                                  voltage_high |-> OrZero(ih),
                                  voltage_low |-> OrZero(il),
                                  n |-> 1, outcome |-> "engaged"]
                    IN  IF SkipForZeroDest(il)
                        THEN /\ pc' = "publish"
                             /\ op' = [entry EXCEPT !.n = 0,
                                                    !.outcome = "skipped_zero"]
                             /\ balancing_active' = FALSE
                             /\ web_data' = [web_data EXCEPT !.balancing = FALSE]
                             /\ UNCHANGED <<relays, dcdc>>
                        ELSE /\ pc' = "balancing"
                             /\ op' = entry
                             /\ balancing_active' = TRUE
                             /\ web_data' = [web_data EXCEPT !.balancing = TRUE]
                             /\ relays' = set_relay_connection(high_b, low_b, relays)
                             /\ dcdc' = control_dcdc_converter(TRUE)
    /\ UNCHANGED <<startup_vars, balancer_failed, rest_elapsed, call_vars>>

\* balance_battery_voltages: one periodic read inside the timed loop
Sample ==
    /\ pc = "balancing"
    /\ op.n <= MaxLoopSamples
    /\ \E new_high \in LoopHighReads, new_low \in LoopLowReads :
        op' = [op EXCEPT
                 !.voltage_high = IF new_high # None THEN new_high ELSE @,
                 !.voltage_low = IF new_low # None THEN new_low ELSE @,
                 !.n = @ + 1]
    /\ UNCHANGED <<pc, startup_vars, balancer_failed, balancing_active,
                   rest_elapsed, relays, dcdc, battery_voltages, temps_alerts,
                   any_low_temp, alert_needed, all_alerts, web_data, call_vars, alarm>>

\* balance_battery_voltages: the loop expires, the final reads are taken and
\* appended to the trends, the converter is turned off.  The values of the
\* final reads are used by the verification only and are drawn there.
StopConverter ==
    /\ pc = "balancing"
    /\ op' = [op EXCEPT !.n = @ + 1]
    /\ dcdc' = control_dcdc_converter(FALSE)
    /\ pc' = "reset"
    /\ UNCHANGED <<startup_vars, balancer_failed, balancing_active,
                   rest_elapsed, relays, battery_voltages, temps_alerts,
                   any_low_temp, alert_needed, all_alerts, web_data, call_vars, alarm>>

\* balance_battery_voltages: reset the relays, the flags and last_balance_time
ResetRelays ==
    /\ pc = "reset"
    /\ relays' = set_relay_connection(0, 0, relays)
    /\ balancing_active' = FALSE
    /\ web_data' = [web_data EXCEPT !.balancing = FALSE]
    /\ rest_elapsed' = 0
    /\ pc' = "verify"
    /\ UNCHANGED <<startup_vars, balancer_failed, dcdc, battery_voltages,
                   temps_alerts, any_low_temp, alert_needed, all_alerts, op, call_vars, alarm>>

\* balance_battery_voltages: the verification; then main: balancing_active = False.
\* An initial read of None makes the subtraction raise TypeError, which ends
\* the process.
Verify ==
    /\ pc = "verify"
    /\ \E fh \in FinalHighReads, fl \in FinalLowReads :
        LET final_high_v == IF fh # None THEN fh ELSE op.voltage_high
            final_low_v == IF fl # None THEN fl ELSE op.voltage_low
        IN  IF ~EnoughSamples(op.n)
            THEN /\ op' = [op EXCEPT !.outcome = "insufficient"]
                 /\ pc' = "publish"
                 /\ balancing_active' = FALSE
                 /\ UNCHANGED <<balancer_failed, temps_alerts>>
            ELSE IF op.initial_high_v = None \/ op.initial_low_v = None
            THEN /\ op' = [op EXCEPT !.outcome = "TypeError"]
                 /\ pc' = "crashed"
                 /\ UNCHANGED <<balancer_failed, temps_alerts, balancing_active>>
            ELSE LET failed == VerificationFails(final_high_v - op.initial_high_v,
                                                 final_low_v - op.initial_low_v,
                                                 min_voltage_delta)
                 IN  /\ op' = [op EXCEPT
                                 !.voltage_high = final_high_v,
                                 !.voltage_low = final_low_v,
                                 !.outcome = IF failed THEN "failed" ELSE "verified"]
                     /\ temps_alerts' = IF failed
                                        THEN temps_alerts \cup {<<"Balancing failed", op.high>>}
                                        ELSE temps_alerts
                     /\ balancer_failed' = LatchAfter(balancer_failed, failed)
                     /\ balancing_active' = FALSE
                     /\ pc' = "publish"
    /\ UNCHANGED <<startup_vars, rest_elapsed, relays, dcdc, battery_voltages,
                   any_low_temp, alert_needed, all_alerts, web_data, call_vars, alarm>>

\* main: publish the snapshot under data_lock, then sleep poll_interval
Publish ==
    /\ pc = "publish"
    /\ web_data' = [voltages |-> battery_voltages, alerts |-> all_alerts,
                    balancing |-> balancing_active,
                    system_status |-> IF alert_needed THEN "Alert" ELSE "Running"]
    /\ rest_elapsed' = IF rest_elapsed > BalanceRestPeriodSeconds
                       THEN rest_elapsed ELSE rest_elapsed + 1
    /\ temps_alerts' = {}
    /\ any_low_temp' = FALSE
    /\ alert_needed' = FALSE
    /\ all_alerts' = {}
    /\ op' = NoOp
    /\ pc' = "poll"
    /\ UNCHANGED <<startup_vars, balancer_failed, balancing_active, relays,
                   dcdc, battery_voltages, call_vars, alarm>>

\* web thread: POST /api/balance, when the request is accepted
api_balance ==
    /\ pc # "crashed"
    /\ ~balancing_active
    /\ web_data.alerts = {}
    /\ Len(web_data.voltages) >= 2
    /\ ~(Max(web_data.voltages) - Min(web_data.voltages) < VoltageDifferenceToBalance)
    /\ balancing_active' = TRUE
    /\ UNCHANGED <<pc, startup_vars, balancer_failed, rest_elapsed, relays, dcdc,
                   battery_voltages, temps_alerts, any_low_temp, alert_needed,
                   all_alerts, op, web_data, call_vars, alarm>>

-----------------------------------------------------------------------------
(* startup_self_test.                                                       *)

StartupMaxRetries == 5

main_vars == <<battery_voltages, temps_alerts, any_low_temp, alert_needed,
               all_alerts>>

\* the permutations of the banks: sorted(bank_voltages_dict, ..., reverse=True)
BankOrders == {o \in [1..num_series_banks -> Banks] :
                 \A i, j \in 1..num_series_banks : i # j => o[i] # o[j]}

RECURSIVE DestsFrom(_, _)
\* [(source, dest) for dest in range(b, NUM_BANKS + 1) if dest != source]
DestsFrom(source, b) ==
    IF b > num_series_banks THEN <<>>
    ELSE (IF b # source THEN <<(<<source, b>>)>> ELSE <<>>) \o DestsFrom(source, b + 1)

RECURSIVE PairsFrom(_, _)
\* the list "pairs" built from sorted_banks[k..]
PairsFrom(sorted_banks, k) ==
    IF k > Len(sorted_banks) THEN <<>>
    ELSE DestsFrom(sorted_banks[k], 1) \o PairsFrom(sorted_banks, k + 1)

\* startup_self_test with StartupSelfTestEnabled = False
StartupDisabled ==
    /\ pc = "startup"
    /\ pc' = "poll"
    /\ UNCHANGED <<startup_vars, main_vars, balancer_failed, balancing_active,
                   rest_elapsed, relays, dcdc, op, web_data, call_vars, alarm>>

\* one attempt of the retry loop, steps 1 to 3 and the preparation of step 4
StAttempt ==
    /\ pc \in {"startup", "st_loop"}
    /\ \E hw \in {{}, {<<"Initial read failure", 0>>}}, temp_anomaly \in BOOLEAN,
          sorted_banks \in BankOrders :
        LET all_pairs == PairsFrom(sorted_banks, 1)
        IN  IF hw # {}
            THEN /\ alerts' = hw
                 /\ pairs' = <<>>
                 /\ pc' = "st_end"
            ELSE IF temp_anomaly
            THEN /\ alerts' = {<<"Skipping balance test", 0>> :
                                  k \in 1..Len(all_pairs)}
                 /\ pairs' = <<>>
                 /\ pc' = "st_end"
            ELSE /\ alerts' = {}
                 /\ pairs' = all_pairs
                 /\ pc' = IF all_pairs = <<>> THEN "st_end" ELSE "st_pair"
    /\ UNCHANGED <<retries, startup_failed, startup_alerts, main_vars,
                   balancer_failed, balancing_active, rest_elapsed, relays,
                   dcdc, op, web_data, call_vars, alarm>>

\* step 4, one pair: initial reads, relays set, converter on
StPairStart ==
    /\ pc = "st_pair"
    /\ \E ih \in InitHighReads, il \in InitLowReads :
        op' = [high |-> pairs[1][1], low |-> pairs[1][2], is_heating |-> FALSE,
               initial_high_v |-> OrZero(ih), initial_low_v |-> OrZero(il),
               voltage_high |-> OrZero(ih), voltage_low |-> OrZero(il),
               n |-> 1, outcome |-> "engaged"]
    /\ relays' = set_relay_connection(pairs[1][1], pairs[1][2], relays)
    /\ dcdc' = control_dcdc_converter(TRUE)
    /\ pc' = "st_balancing"
    /\ UNCHANGED <<startup_vars, main_vars, balancer_failed, balancing_active,
                   rest_elapsed, web_data, call_vars, alarm>>

\* step 4, one read inside the test loop (appended to source_trend)
StSample ==
    /\ pc = "st_balancing"
    /\ op.n <= MaxLoopSamples
    /\ op' = [op EXCEPT !.n = @ + 1]
    /\ UNCHANGED <<pc, startup_vars, main_vars, balancer_failed, balancing_active,
                   rest_elapsed, relays, dcdc, web_data, call_vars, alarm>>

\* step 4, the loop expires: final reads (drawn by the analysis), converter off
StStopConverter ==
    /\ pc = "st_balancing"
    /\ dcdc' = control_dcdc_converter(FALSE)
    /\ pc' = "st_reset"
    /\ UNCHANGED <<startup_vars, main_vars, balancer_failed, balancing_active,
                   rest_elapsed, relays, op, web_data, call_vars, alarm>>

\* step 4, relays reset and analysis of the pair
StAnalyze ==
    /\ pc = "st_reset"
    /\ relays' = set_relay_connection(0, 0, relays)
    /\ \E fh \in FinalHighReads, fl \in FinalLowReads :
        LET failed == IF EnoughSamples(op.n)
                      THEN min_voltage_delta > 0 /\
                           VerificationFails(OrZero(fh) - op.initial_high_v,
                                             OrZero(fl) - op.initial_low_v,
                                             min_voltage_delta)
                      ELSE TRUE
        IN  /\ alerts' = IF failed
                         THEN alerts \cup {<<"Balance test failed", 0>>}
                         ELSE alerts
            /\ balancer_failed' = LatchAfter(balancer_failed, failed)
    /\ op' = NoOp
    /\ pairs' = Tail(pairs)
    /\ pc' = IF Tail(pairs) = <<>> THEN "st_end" ELSE "st_pair"
    /\ UNCHANGED <<retries, startup_failed, startup_alerts, main_vars,
                   balancing_active, rest_elapsed, dcdc, web_data, call_vars, alarm>>

\* a variant that allows one attempt more
RetriesExhausted_late(r) == r > StartupMaxRetries

\* 'if retries >= max_retries', evaluated after 'retries += 1'
RetriesExhausted(r) == r >= StartupMaxRetries

\* the end of an attempt: retry, give up after StartupMaxRetries, or pass
StEnd ==
    /\ pc = "st_end"
    /\ IF alerts # {}
       THEN /\ startup_alerts' = alerts
            /\ web_data' = [web_data EXCEPT
                              !.system_status = "Startup Self-Test Failed",
                              !.alerts = alerts]
            /\ IF RetriesExhausted(retries + 1)
               THEN startup_failed' = FALSE /\ retries' = 0 /\ pc' = "poll"
               ELSE startup_failed' = TRUE /\ retries' = retries + 1 /\ pc' = "st_loop"
       ELSE /\ startup_failed' = FALSE
            /\ startup_alerts' = {}
            /\ retries' = 0
            /\ pc' = "poll"
            /\ UNCHANGED web_data
    /\ alerts' = {}
    \* AlarmRelayPin: HIGH with alerts, LOW on success
    /\ alarm' = (alerts # {})
    /\ UNCHANGED <<pairs, main_vars, balancer_failed, balancing_active,
                   rest_elapsed, relays, dcdc, op, call_vars>>

-----------------------------------------------------------------------------

Init ==
    /\ pc = "startup"
    /\ retries = 0
    /\ pairs = <<>>
    /\ alerts = {}
    /\ startup_failed = FALSE
    /\ startup_alerts = {}
    /\ balancer_failed = FALSE
    /\ balancing_active = FALSE
    /\ rest_elapsed = BalanceRestPeriodSeconds + 1
    /\ relays = {}
    /\ dcdc = FALSE
    /\ battery_voltages = <<>>
    /\ temps_alerts = {}
    /\ any_low_temp = FALSE
    /\ alert_needed = FALSE
    /\ all_alerts = {}
    /\ op = NoOp
    /\ alarm = FALSE
    /\ vread = NoVread
    /\ event_log = <<>>
    /\ alive_timestamp = 0
    /\ wd_thread = Nothing
    /\ clock = 0
    /\ sync = NoSync
    /\ web_data = [voltages |-> [i \in 1..num_series_banks |-> 0], alerts |-> {},
                   balancing |-> FALSE, system_status |-> "Initializing"]
    /\ ntc = NoNtc
    /\ topo = NoTopo
    /\ TempIdle

Next ==
    \/ StartupDisabled
    \/ StAttempt
    \/ StPairStart
    \/ StSample
    \/ StStopConverter
    \/ StAnalyze
    \/ StEnd
    \/ Poll
    \/ Sample
    \/ StopConverter
    \/ ResetRelays
    \/ Verify
    \/ Publish
    \/ api_balance

Spec == Init /\ [][Next]_vars

\* the main thread runs startup_self_test to its end before anything else
\* (3149): its steps are taken whenever they are possible
SpecStartupFair ==
    Spec /\ WF_vars(StartupDisabled \/ StAttempt \/ StPairStart \/ StSample
                       \/ StStopConverter \/ StAnalyze \/ StEnd)

-----------------------------------------------------------------------------
(* read_ntc_sensors: the retry loop with its two budgets.                   *)

\* bounds of the calls examined
MaxRetries == 5
SlaveAddrs == {1, 2}

main_thread_vars == <<pc, startup_vars, main_vars, balancer_failed,
                      balancing_active, rest_elapsed, relays, dcdc, op, web_data,
                      alarm>>

\* "Error: Modbus exception code {response[2]} for slave {slave_addr}"
ExceptionResult(frame, slave_addr) ==
    [kind |-> "Modbus exception", slave |-> slave_addr, count |-> 0,
     code |-> frame.byte_count]

\* an error string: every one of them ends in "for slave {slave_addr}"
ErrorResult(kind, slave_addr) == [kind |-> kind, slave |-> slave_addr, count |-> 0]

\* num_channels of the calls examined, and the response frames they receive:
\* total length, whether the CRC of the last two bytes matches, and the three
\* header bytes (meaningful when the frame has them)
NumChannels == 2
expected_data_length == NumChannels * 2
expected_response_length == 3 + expected_data_length + 2
FuncCodes == {3, 4, 131}
Frames == [len : 0..(expected_response_length + 1), crc_ok : BOOLEAN,
           slave : SlaveAddrs, func : FuncCodes,
           byte_count : {expected_data_length - 2, expected_data_length}]

\* mutant: the function code is looked at before the unit id
Validate_func_first(frame, slave_addr) ==
    IF frame.len < 5 THEN "Short response"
    ELSE IF ~frame.crc_ok THEN "CRC mismatch"
    ELSE IF frame.func # 3
         THEN IF frame.func >= 128 THEN "Modbus exception"
              ELSE "Invalid function code"
    ELSE IF frame.slave # slave_addr THEN "Slave address mismatch"
    ELSE IF frame.byte_count # expected_data_length THEN "Byte count mismatch"
    ELSE "ok"

\* the validation of a response, in the order of the code
Validate(frame, slave_addr) ==
    IF frame.len < 5 THEN "Short response"
    ELSE IF ~frame.crc_ok THEN "CRC mismatch"
    ELSE IF frame.slave # slave_addr THEN "Slave address mismatch"
    ELSE IF frame.func # 3
         THEN IF frame.func >= 128 THEN "Modbus exception"
              ELSE "Invalid function code"
    ELSE IF frame.byte_count # expected_data_length THEN "Byte count mismatch"
    ELSE "ok"

ValueErrors == {"Short response", "CRC mismatch", "Slave address mismatch",
                "Invalid function code", "Byte count mismatch"}

\* len(raw_temperatures): data = response[3:3 + byte_count] holds the bytes the
\* response has from offset 3 on, at most byte_count, and
\* "for i in range(0, len(data), 2)" makes one value of every started pair
DecodedCount(frame) ==
    LET avail == frame.len - 3
        data  == IF avail < frame.byte_count THEN avail ELSE frame.byte_count
    IN (data + 1) \div 2

\* mutant: the network budget is one retry short
NetworkRetryLeft_short(count) == count < 2

\* "if network_retry_count < 3" after a failed connectivity probe
NetworkRetryLeft(count) == count < 3

\* "if attempt < max_retries - 1" after a successful connectivity probe
DeviceRetryLeft(attempt, max_retries) == attempt < max_retries - 1

\* the except socket.error / except ValueError handlers: test_modbus_connectivity
\* returned probe_ok after the failure of the running attempt
AfterFailure(n, probe_ok) ==
    IF probe_ok
    THEN IF DeviceRetryLeft(n.attempt, n.max_retries)
         THEN [n EXCEPT !.device_failures = @ + 1, !.attempt = @ + 1]
         ELSE [n EXCEPT !.device_failures = @ + 1, !.state = "done",
                        !.result = ErrorResult("Failed after attempts", n.slave_addr)]
    ELSE IF NetworkRetryLeft(n.network_retry_count + 1)
         THEN [n EXCEPT !.network_retry_count = @ + 1, !.attempt = @ + 1]
         ELSE [n EXCEPT !.network_retry_count = @ + 1, !.state = "done",
                        !.result = ErrorResult("Network unreachable", n.slave_addr)]

\* one more pass of "for attempt in range(max_retries)" begins
Attempting == ntc.state = "running" /\ ntc.attempt < ntc.max_retries

Connected(n) == [n EXCEPT !.attempts = @ + 1]

\* connect, send or recv raises socket.error (a timeout is one)
NtcSocketError ==
    /\ Attempting
    /\ \E probe_ok \in BOOLEAN : ntc' = AfterFailure(Connected(ntc), probe_ok)
    /\ UNCHANGED <<main_thread_vars, topo, temp_vars, vread, event_log, alive_timestamp, wd_thread, clock, sync>>

\* the response fails a validation (short, CRC, slave address, function code,
\* byte count): ValueError
NtcValueError ==
    /\ Attempting
    /\ \E frame \in Frames, probe_ok \in BOOLEAN :
        /\ Validate(frame, ntc.slave_addr) \in ValueErrors
        /\ ntc' = AfterFailure([Connected(ntc) EXCEPT !.only_timeouts = FALSE], probe_ok)
    /\ UNCHANGED <<main_thread_vars, topo, temp_vars, vread, event_log, alive_timestamp, wd_thread, clock, sync>>

\* the response carries the error bit: return the exception code at once
NtcModbusException ==
    /\ Attempting
    /\ \E frame \in Frames :
        /\ Validate(frame, ntc.slave_addr) = "Modbus exception"
        /\ ntc' = [Connected(ntc) EXCEPT !.only_timeouts = FALSE, !.state = "done",
                     !.result = ExceptionResult(frame, ntc.slave_addr)]
    /\ UNCHANGED <<main_thread_vars, topo, temp_vars, vread, event_log, alive_timestamp, wd_thread, clock, sync>>

\* any other exception
NtcUnexpected ==
    /\ Attempting
    /\ ntc' = [Connected(ntc) EXCEPT !.only_timeouts = FALSE, !.state = "done",
                 !.result = ErrorResult("Unexpected failure", ntc.slave_addr)]
    /\ UNCHANGED <<main_thread_vars, topo, temp_vars, vread, event_log, alive_timestamp, wd_thread, clock, sync>>

\* a valid response: the list of temperatures
NtcSuccess ==
    /\ Attempting
    /\ \E frame \in Frames :
        /\ Validate(frame, ntc.slave_addr) = "ok"
        /\ ntc' = [Connected(ntc) EXCEPT !.only_timeouts = FALSE, !.state = "done",
                     !.result = [kind |-> "values", slave |-> ntc.slave_addr,
                                 count |-> DecodedCount(frame)]]
    /\ UNCHANGED <<main_thread_vars, topo, temp_vars, vread, event_log, alive_timestamp, wd_thread, clock, sync>>

\* the for loop ran out: "All retries exhausted"
NtcExhausted ==
    /\ ntc.state = "running"
    /\ ~(ntc.attempt < ntc.max_retries)
    /\ ntc' = [ntc EXCEPT !.state = "done",
                 !.result = ErrorResult("All retries exhausted", ntc.slave_addr)]
    /\ UNCHANGED <<main_thread_vars, topo, temp_vars, vread, event_log, alive_timestamp, wd_thread, clock, sync>>

NtcInit ==
    /\ pc = "startup"
    /\ retries = 0
    /\ pairs = <<>>
    /\ alerts = {}
    /\ startup_failed = FALSE
    /\ startup_alerts = {}
    /\ balancer_failed = FALSE
    /\ balancing_active = FALSE
    /\ rest_elapsed = BalanceRestPeriodSeconds + 1
    /\ relays = {}
    /\ dcdc = FALSE
    /\ battery_voltages = <<>>
    /\ temps_alerts = {}
    /\ any_low_temp = FALSE
    /\ alert_needed = FALSE
    /\ all_alerts = {}
    /\ op = NoOp
    /\ alarm = FALSE
    /\ vread = NoVread
    /\ event_log = <<>>
    /\ alive_timestamp = 0
    /\ wd_thread = Nothing
    /\ clock = 0
    /\ sync = NoSync
    /\ web_data = [voltages |-> [i \in 1..num_series_banks |-> 0], alerts |-> {},
                   balancing |-> FALSE, system_status |-> "Initializing"]
    /\ \E m \in 1..MaxRetries, a \in SlaveAddrs :
         ntc = [NoNtc EXCEPT !.state = "running", !.max_retries = m, !.slave_addr = a]
    /\ topo = NoTopo
    /\ TempIdle

NtcNext ==
    \/ NtcSocketError
    \/ NtcValueError
    \/ NtcModbusException
    \/ NtcUnexpected
    \/ NtcSuccess
    \/ NtcExhausted

SpecNtc == NtcInit /\ [][NtcNext]_vars

-----------------------------------------------------------------------------
(* Channel topology: get_bank_for_channel and get_battery_and_local_ch.     *)

\* the configurations examined
MaxBanks == 3
MaxParallel == 2
SensorsPerBankChoices == {1, 2, 8}

\* main, "Build indices": the 0-based channel indices of every bank
BANK_SENSOR_INDICES(banks, per_bank, parallel) ==
    [bank_id \in 1..banks |->
        {bat * (banks * per_bank) + (bank_id - 1) * per_bank + k :
            bat \in 0..(parallel - 1), k \in 0..(per_bank - 1)}]

\* get_bank_for_channel(ch): the first bank whose indices hold ch - 1, or None
get_bank_for_channel(ch, indices) ==
    LET found == {bank_id \in DOMAIN indices : (ch - 1) \in indices[bank_id]}
    IN IF found = {} THEN None
       ELSE CHOOSE bank_id \in found : \A other \in found : bank_id <= other

\* get_battery_and_local_ch(ch): "sensors_per_battery = 24" whatever the
\* configuration; // and % round towards minus infinity
hardcoded_sensors_per_battery == 24
get_battery_and_local_ch(ch) ==
    <<((ch - 1) \div hardcoded_sensors_per_battery) + 1,
      ((ch - 1) % hardcoded_sensors_per_battery) + 1>>

TopoInit ==
    /\ pc = "startup"
    /\ retries = 0
    /\ pairs = <<>>
    /\ alerts = {}
    /\ startup_failed = FALSE
    /\ startup_alerts = {}
    /\ balancer_failed = FALSE
    /\ balancing_active = FALSE
    /\ rest_elapsed = BalanceRestPeriodSeconds + 1
    /\ relays = {}
    /\ dcdc = FALSE
    /\ battery_voltages = <<>>
    /\ temps_alerts = {}
    /\ any_low_temp = FALSE
    /\ alert_needed = FALSE
    /\ all_alerts = {}
    /\ op = NoOp
    /\ alarm = FALSE
    /\ vread = NoVread
    /\ event_log = <<>>
    /\ alive_timestamp = 0
    /\ wd_thread = Nothing
    /\ clock = 0
    /\ sync = NoSync
    /\ web_data = [voltages |-> [i \in 1..num_series_banks |-> 0], alerts |-> {},
                   balancing |-> FALSE, system_status |-> "Initializing"]
    /\ ntc = NoNtc
    /\ \E b \in 1..MaxBanks, s \in SensorsPerBankChoices, p \in 1..MaxParallel :
         topo = [NoTopo EXCEPT !.banks = b, !.sensors_per_bank = s,
                               !.number_parallel = p]
    /\ TempIdle

total_channels(t) == t.number_parallel * t.banks * t.sensors_per_bank

sensors_per_battery(t) == t.banks * t.sensors_per_bank

\* a caller looks a channel up with both functions
LookupChannel ==
    /\ \E ch \in (0 - 2)..(total_channels(topo) + 2) :
         LET bl == get_battery_and_local_ch(ch)
         IN topo' = [topo EXCEPT
                !.queried = TRUE, !.ch = ch,
                !.bank = get_bank_for_channel(ch,
                            BANK_SENSOR_INDICES(topo.banks, topo.sensors_per_bank,
                                                topo.number_parallel)),
                !.bat_id = bl[1], !.local_ch = bl[2]]
    /\ UNCHANGED <<main_thread_vars, ntc, temp_vars, vread, event_log, alive_timestamp, wd_thread, clock, sync>>

TopoNext == LookupChannel

SpecTopo == TopoInit /\ [][TopoNext]_vars

-----------------------------------------------------------------------------
(* Temperatures: acquisition, calibration and the anomaly checks.           *)

\* Temperatures are Python floats.  They are modelled in degrees Celsius by a
\* binary floating point format with SignificandBits significant bits and a
\* smallest spacing of 1: every sum, difference and mean is rounded to the
\* nearest representable number, ties to the even significand.
SignificandBits == 3

RECURSIVE Pow2(_)
Pow2(n) == IF n = 0 THEN 1 ELSE 2 * Pow2(n - 1)

\* the spacing of the representable numbers around magnitude a
RECURSIVE UlpOf(_)
UlpOf(a) == IF a < Pow2(SignificandBits) THEN 1 ELSE 2 * UlpOf(a \div 2)

\* the float nearest to x2 / 2
RoundHalf(x2) ==
    LET mag  == Abs(x2)
        u    == UlpOf(mag \div 2)
        k    == mag \div (2 * u)
        rem  == mag - 2 * u * k
        up   == rem > u \/ (rem = u /\ k % 2 = 1)
        r    == u * (IF up THEN k + 1 ELSE k)
    IN IF x2 < 0 THEN 0 - r ELSE r

fl(x) == RoundHalf(2 * x)
Representable(x) == fl(x) = x

\* a + b and a - b in floats
FAdd(a, b) == fl(a + b)
FSub(a, b) == fl(a - b)

\* the k-th smallest element of a non-empty sequence of numbers
KthSmallest(vals, k) ==
    CHOOSE v \in {vals[i] : i \in DOMAIN vals} :
        /\ Cardinality({i \in DOMAIN vals : vals[i] < v}) < k
        /\ Cardinality({i \in DOMAIN vals : vals[i] <= v}) >= k

\* statistics.median: the middle element, or the mean of the two middle ones
median(vals) ==
    LET n == Len(vals)
    IN IF n % 2 = 1 THEN KthSmallest(vals, (n + 1) \div 2)
       ELSE RoundHalf(KthSmallest(vals, n \div 2) + KthSmallest(vals, n \div 2 + 1))

\* configuration of the temperature part
sensors_per_bank == 1
number_of_parallel_batteries == 2
modbus_slave_addresses == <<1, 2>>
valid_min == 0
high_threshold == 11
low_threshold == 2
abs_deviation_threshold == 2
deviation_threshold_num == 1
deviation_threshold_den == 10
rise_threshold == 2
disconnection_lag_threshold == 1
cold_threshold == 10

TempTopo == [NoTopo EXCEPT !.banks = num_series_banks,
                           !.sensors_per_bank = sensors_per_bank,
                           !.number_parallel = number_of_parallel_batteries]
TotalChannels == total_channels(TempTopo)
SensorsPerBattery == sensors_per_battery(TempTopo)
BankIndices == BANK_SENSOR_INDICES(num_series_banks, sensors_per_bank,
                                   number_of_parallel_batteries)

\* the "Battery {bat_id} Bank {bank} Local Ch {local_ch}" of an alert text
Label(ch) ==
    LET bl == get_battery_and_local_ch(ch)
    IN <<bl[1], get_bank_for_channel(ch, BankIndices), bl[2]>>

TempAlert(kind, ch) == <<kind>> \o Label(ch)

\* mutant: the reading is compared with low_threshold instead of valid_min
IsInvalidReading_low(raw) == raw < low_threshold

\* check_invalid_reading: "if raw <= valid_min"
IsInvalidReading(raw) == raw <= valid_min

check_invalid_reading(raw, ch) ==
    IF IsInvalidReading(raw) THEN {TempAlert("Invalid reading", ch)} ELSE {}

check_high_temp(calibrated, ch) ==
    IF calibrated > high_threshold THEN {TempAlert("High temp", ch)} ELSE {}

check_low_temp(calibrated, ch) ==
    IF calibrated < low_threshold THEN {TempAlert("Low temp", ch)} ELSE {}

\* mutant: the relative term is evaluated against the absolute threshold only
DeviationExceeded_abs_only(calibrated, bank_median) ==
    Abs(FSub(calibrated, bank_median)) > abs_deviation_threshold

\* check_deviation: abs_dev > abs_deviation_threshold or rel_dev >
\* deviation_threshold, with rel_dev = abs_dev / |bank_median|, 0 for a zero
\* median; the quotient is compared exactly
DeviationExceeded(calibrated, bank_median) ==
    LET abs_dev == Abs(FSub(calibrated, bank_median))
    IN \/ abs_dev > abs_deviation_threshold
       \/ /\ bank_median # 0
          /\ abs_dev * deviation_threshold_den >
                deviation_threshold_num * Abs(bank_median)

check_deviation(calibrated, bank_median, ch) ==
    IF DeviationExceeded(calibrated, bank_median)
    THEN {TempAlert("Deviation", ch)} ELSE {}

\* check_abnormal_rise and check_group_tracking_lag: only with a previous value
check_abnormal_rise(current, previous, ch) ==
    IF previous # Nothing /\ FSub(current, previous[1]) > rise_threshold
    THEN {TempAlert("Abnormal rise", ch)} ELSE {}

\* mutant: the rise of the channel is not compared with the rise of its bank
check_group_tracking_lag_alone(current, previous, bank_median_rise, ch) ==
    IF /\ previous # Nothing
       /\ Abs(FSub(current, previous[1])) > disconnection_lag_threshold
    THEN {TempAlert("Lag", ch)} ELSE {}

check_group_tracking_lag(current, previous, bank_median_rise, ch) ==
    IF /\ previous # Nothing
       /\ Abs(FSub(FSub(current, previous[1]), bank_median_rise)) >
            disconnection_lag_threshold
    THEN {TempAlert("Lag", ch)} ELSE {}

\* mutant: every absent reading is reported, whatever the previous one was
check_sudden_disconnection_any(current, previous, ch) ==
    IF current = Nothing THEN {TempAlert("Sudden disconnection", ch)} ELSE {}

check_sudden_disconnection(current, previous, ch) ==
    IF previous # Nothing /\ current = Nothing
    THEN {TempAlert("Sudden disconnection", ch)} ELSE {}

\* the numbers found at the 0-based indices idx of temps, None left out
RECURSIVE ValuesOf(_, _)
ValuesOf(temps, idx) ==
    IF idx = <<>> THEN <<>>
    ELSE (IF temps[Head(idx) + 1] # Nothing
          THEN <<temps[Head(idx) + 1][1]>> ELSE <<>>) \o ValuesOf(temps, Tail(idx))

\* a set of integers as an increasing sequence
RECURSIVE Ascending(_)
Ascending(set) ==
    IF set = {} THEN <<>>
    ELSE LET lo == CHOOSE x \in set : \A y \in set : x <= y
         IN <<lo>> \o Ascending(set \ {lo})

\* compute_bank_medians: median and invalid count of every bank
\* mutant: an absent reading enters the statistics of its bank as 0.0
compute_bank_medians_zeros(temps) ==
    [bank_id \in 1..num_series_banks |->
        LET idx        == Ascending(BankIndices[bank_id])
            bank_temps == [k \in 1..Len(idx) |->
                             IF temps[idx[k] + 1] # Nothing
                             THEN temps[idx[k] + 1][1] ELSE 0]
        IN [median  |-> median(bank_temps),
            min     |-> Min(bank_temps),
            max     |-> Max(bank_temps),
            invalid |-> Len(idx) - Len(ValuesOf(temps, idx))]]

compute_bank_medians(temps) ==
    [bank_id \in 1..num_series_banks |->
        LET idx        == Ascending(BankIndices[bank_id])
            bank_temps == ValuesOf(temps, idx)
        IN [median  |-> IF bank_temps # <<>> THEN median(bank_temps) ELSE 0,
            min     |-> IF bank_temps # <<>> THEN Min(bank_temps) ELSE 0,
            max     |-> IF bank_temps # <<>> THEN Max(bank_temps) ELSE 0,
            invalid |-> Len(idx) - Len(bank_temps)]]

cabinet_over_temp_threshold == 14

\* the values the channels deliver, and what read_ntc_sensors returns for
\* unit i: an error string, or a list of 1 to sensors_per_battery values
RawVals(ch) == IF ch = 1 THEN {1, 10}
               ELSE IF ch = 2 THEN {0, 10}
               ELSE {10}
AllRawVals == UNION {RawVals(ch) : ch \in 1..TotalChannels}
ReadError == [is_str |-> TRUE, values |-> <<>>]
UnitLists(i) ==
    UNION {{l \in [1..n -> AllRawVals] :
               \A k \in 1..n : l[k] \in RawVals((i - 1) * SensorsPerBattery + k)} :
           n \in 1..SensorsPerBattery}
UnitResults(i) == {ReadError} \cup {[is_str |-> FALSE, values |-> l] : l \in UnitLists(i)}
PollResults ==
    {r \in [DOMAIN modbus_slave_addresses -> UNION {UnitResults(i) : i \in DOMAIN modbus_slave_addresses}] :
        \A i \in DOMAIN modbus_slave_addresses : r[i] \in UnitResults(i)}


\* "for addr in slave_addresses": the raw values and the alerts of the reads
RECURSIVE RawOf(_, _)
RawOf(results, i) ==
    IF i > Len(modbus_slave_addresses) THEN <<>>
    ELSE (IF results[i].is_str
          THEN [k \in 1..SensorsPerBattery |-> valid_min]
          ELSE results[i].values) \o RawOf(results, i + 1)

FailureAlerts(results, kind) ==
    {<<kind, modbus_slave_addresses[i]>> :
        i \in {j \in DOMAIN results : results[j].is_str}}

ValidCount(raw) == Cardinality({i \in DOMAIN raw : raw[i] > valid_min})

\* "[startup_median - t for t in raw_temps]"
OffsetsFor(med, raw) == [i \in DOMAIN raw |-> FSub(med, raw[i])]

\* mutant: the offset is not applied
CalibratedReading_raw(raw, offset, is_set) ==
    IF raw > valid_min THEN Some(raw) ELSE Nothing

\* one element of calibrated_temps (main, "Apply offsets")
CalibratedReading(raw, offset, is_set) ==
    IF is_set /\ raw > valid_min THEN Some(FAdd(raw, offset))
    ELSE IF raw > valid_min THEN Some(raw)
    ELSE Nothing

\* "Check static anomalies": the alerts of channel ch
StaticAlerts(raw, calib, medians, ch) ==
    IF check_invalid_reading(raw, ch) # {} THEN check_invalid_reading(raw, ch)
    ELSE LET bank_median == medians[get_bank_for_channel(ch, BankIndices)]
         IN check_high_temp(calib[1], ch) \cup check_low_temp(calib[1], ch)
              \cup check_deviation(calib[1], bank_median, ch)

\* "Dynamic checks if not first run": the alerts of channel ch
DynamicAlerts(calib, previous, bank_median_rise, ch) ==
    (IF calib # Nothing
     THEN check_abnormal_rise(calib[1], previous, ch)
            \cup check_group_tracking_lag(calib[1], previous, bank_median_rise, ch)
     ELSE {})
    \cup check_sudden_disconnection(calib, previous, ch)

Channels == 1..TotalChannels

\* the calibration state after "Calibrate if first valid full read" and
\* "Reset if offsets missing"
MainCalibration(raw, write_ok) ==
    LET now  == ~startup_set /\ ValidCount(raw) = TotalChannels
        med  == IF now THEN Some(median(raw)) ELSE startup_median
        offs == IF now THEN Some(OffsetsFor(median(raw), raw)) ELSE startup_offsets
        set1 == startup_set \/ now
    IN [now |-> now, startup_median |-> med, startup_offsets |-> offs,
        startup_set |-> set1 /\ offs # Nothing,
        offsets_file |-> IF now /\ write_ok THEN offs ELSE offsets_file]

\* the alerts of "Check static anomalies", "Dynamic checks if not first run"
\* and "Fan for cabinet overheat" for the calibrated temperatures calib
AnomalyAlerts(raw, calib, medians) ==
    LET static  == UNION {StaticAlerts(raw[ch], calib[ch], medians, ch) : ch \in Channels}
        dynamic == IF run_count > 0
                   THEN UNION {DynamicAlerts(calib[ch], previous_temps[ch],
                                 FSub(medians[get_bank_for_channel(ch, BankIndices)],
                                      previous_bank_medians[get_bank_for_channel(ch, BankIndices)]),
                                 ch) : ch \in Channels}
                   ELSE {}
        valid   == ValuesOf(calib, [i \in Channels |-> i - 1])
        overall == IF valid # <<>> THEN median(valid) ELSE 0
        cabinet == IF overall > cabinet_over_temp_threshold
                   THEN {<<"Cabinet over temp", 0>>} ELSE {}
    IN static \cup dynamic \cup cabinet

\* the temperature part of one iteration of the main loop: the reads of the
\* units, the calibration, the calibrated values and the anomaly checks (the
\* voltage part and the balance operation of the iteration are Poll to Publish)
TempPoll ==
    /\ pc = "t_poll"
    /\ \E results \in PollResults, write_ok \in BOOLEAN :
       \E raw \in {RawOf(results, 1)} :
       \E cal \in {MainCalibration(raw, write_ok)} :
           /\ (cal.now \/ write_ok)
           /\ raw_temps' = raw
           /\ startup_median' = cal.startup_median
           /\ startup_offsets' = cal.startup_offsets
           /\ startup_set' = cal.startup_set
           /\ offsets_file' = cal.offsets_file
           /\ calibrating' = cal.now
           /\ IF Len(raw) < TotalChannels
              THEN \* raw_temps[i] for i in range(total_channels): IndexError
                   /\ pc' = "crashed"
                   /\ temps_alerts' = FailureAlerts(results, "Modbus slave failed")
                   /\ UNCHANGED <<calibrated_temps, bank_stats, previous_temps,
                                  previous_bank_medians, run_count, any_low_temp>>
              ELSE \E calib \in {[i \in Channels |->
                                    CalibratedReading(raw[i],
                                       IF cal.startup_set THEN cal.startup_offsets[1][i] ELSE 0,
                                       cal.startup_set)]} :
                   \E stats \in {compute_bank_medians(calib)} :
                   \E medians \in {[b \in 1..num_series_banks |-> stats[b].median]} :
                      /\ calibrated_temps' = calib
                      /\ bank_stats' = stats
                      /\ temps_alerts' = FailureAlerts(results, "Modbus slave failed")
                                           \cup AnomalyAlerts(raw, calib, medians)
                      /\ previous_temps' = calib
                      /\ previous_bank_medians' = medians
                      /\ any_low_temp' = \E ch \in Channels :
                                            calib[ch] # Nothing /\ calib[ch][1] < cold_threshold
                      /\ run_count' = 1
                      /\ pc' = "t_poll"
    /\ UNCHANGED <<startup_vars, balancer_failed, balancing_active, rest_elapsed,
                   relays, dcdc, battery_voltages, alert_needed, all_alerts, op,
                   web_data, ntc, topo, vread, event_log, alive_timestamp, wd_thread, clock, sync, alarm>>

\* startup_self_test is disabled by configuration
TempSelfTestDisabled ==
    /\ pc = "t_startup"
    /\ retries = 0
    /\ pc' = "t_poll"
    /\ UNCHANGED <<startup_vars, main_vars, balancer_failed, balancing_active,
                   rest_elapsed, relays, dcdc, op, web_data, ntc, topo, vread, event_log, alive_timestamp, wd_thread, clock, sync, temp_vars,
                   alarm>>

\* one attempt of startup_self_test: the initial temperature reads, the
\* calibration, and the end of the attempt; failed says whether another step
\* of the attempt raised an alert
TempSelfTest ==
    /\ pc = "t_startup"
    /\ \E results \in PollResults, write_ok \in BOOLEAN, failed \in BOOLEAN :
        LET all_initial_temps == RawOf(results, 1)
            temp_fail == FailureAlerts(results, "Initial temp read failure") # {}
            all_valid == ValidCount(all_initial_temps) = TotalChannels
            med       == median(all_initial_temps)
            fresh     == offsets_file = Nothing
            attempt_alerts == FailureAlerts(results, "Initial temp read failure")
                                \cup (IF failed THEN {<<"Self-test failure", 0>>} ELSE {})
        IN /\ ((~temp_fail /\ all_valid /\ fresh) \/ write_ok)
           /\ raw_temps' = all_initial_temps
           /\ IF temp_fail
              THEN /\ UNCHANGED <<startup_set, startup_median, startup_offsets,
                                  offsets_file>>
                   /\ calibrating' = FALSE
              ELSE IF all_valid
              THEN /\ startup_median' = Some(med)
                   /\ startup_offsets' = IF fresh THEN Some(OffsetsFor(med, all_initial_temps))
                                         ELSE offsets_file
                   /\ offsets_file' = IF fresh /\ write_ok
                                      THEN Some(OffsetsFor(med, all_initial_temps))
                                      ELSE offsets_file
                   /\ startup_set' = TRUE
                   /\ calibrating' = fresh
              ELSE /\ startup_median' = Nothing
                   /\ startup_offsets' = Nothing
                   /\ startup_set' = FALSE
                   /\ calibrating' = FALSE
                   /\ UNCHANGED offsets_file
           \* "alerts = []" opens every attempt: the list of this attempt
           \* survives it as startup_alerts only
           /\ alerts' = {}
           /\ startup_alerts' = attempt_alerts
           /\ alarm' = (attempt_alerts # {})
           /\ IF attempt_alerts # {}
              THEN /\ web_data' = [web_data EXCEPT !.alerts = attempt_alerts,
                                       !.system_status = "Startup Self-Test Failed"]
                   /\ IF RetriesExhausted(retries + 1)
                      THEN retries' = 0 /\ pc' = "t_poll" /\ startup_failed' = FALSE
                      ELSE /\ retries' = retries + 1
                           /\ pc' = "t_startup"
                           /\ startup_failed' = TRUE
              ELSE /\ retries' = 0
                   /\ pc' = "t_poll"
                   /\ startup_failed' = FALSE
                   /\ UNCHANGED web_data
    /\ UNCHANGED <<pairs, main_vars, balancer_failed,
                   balancing_active, rest_elapsed, relays, dcdc, op, ntc, topo, vread, event_log, alive_timestamp, wd_thread, clock, sync,
                   calibrated_temps, bank_stats, previous_temps,
                   previous_bank_medians, run_count>>

TempInit ==
    /\ pc = "t_startup"
    /\ retries = 0
    /\ pairs = <<>>
    /\ alerts = {}
    /\ startup_failed = FALSE
    /\ startup_alerts = {}
    /\ balancer_failed = FALSE
    /\ balancing_active = FALSE
    /\ rest_elapsed = BalanceRestPeriodSeconds + 1
    /\ relays = {}
    /\ dcdc = FALSE
    /\ battery_voltages = <<>>
    /\ temps_alerts = {}
    /\ any_low_temp = FALSE
    /\ alert_needed = FALSE
    /\ all_alerts = {}
    /\ op = NoOp
    /\ alarm = FALSE
    /\ vread = NoVread
    /\ event_log = <<>>
    /\ alive_timestamp = 0
    /\ wd_thread = Nothing
    /\ clock = 0
    /\ sync = NoSync
    /\ web_data = [voltages |-> [i \in 1..num_series_banks |-> 0], alerts |-> {},
                   balancing |-> FALSE, system_status |-> "Initializing"]
    /\ ntc = NoNtc
    /\ topo = TempTopo
    /\ startup_set = FALSE
    /\ startup_median = Nothing
    /\ startup_offsets = Nothing
    \* offsets.txt as an earlier process may have left it
    /\ offsets_file \in {Nothing,
                         Some([i \in 1..TotalChannels |-> IF i = 1 THEN 1 ELSE 0])}
    /\ raw_temps = <<>>
    /\ calibrated_temps = <<>>
    /\ bank_stats = <<>>
    /\ previous_temps = [i \in Channels |-> Nothing]
    /\ previous_bank_medians = [b \in 1..num_series_banks |-> 0]
    /\ run_count = 0
    /\ calibrating = FALSE

TempNext ==
    \/ TempSelfTestDisabled
    \/ TempSelfTest
    \/ TempPoll

SpecTemp == TempInit /\ [][TempNext]_vars

------------------------------------------------------------------------------
(* check_deviation on its own.                                              *)

MaxTemp == 16

\* the calibrated values and bank medians handed to check_deviation
DevVals == {x \in (0 - 2)..MaxTemp : Representable(x)}

DevInit ==
    /\ pc = "d_check"
    /\ retries = 0
    /\ pairs = <<>>
    /\ alerts = {}
    /\ startup_failed = FALSE
    /\ startup_alerts = {}
    /\ balancer_failed = FALSE
    /\ balancing_active = FALSE
    /\ rest_elapsed = BalanceRestPeriodSeconds + 1
    /\ relays = {}
    /\ dcdc = FALSE
    /\ battery_voltages = <<>>
    /\ temps_alerts = {}
    /\ any_low_temp = FALSE
    /\ alert_needed = FALSE
    /\ all_alerts = {}
    /\ op = NoOp
    /\ alarm = FALSE
    /\ vread = NoVread
    /\ event_log = <<>>
    /\ alive_timestamp = 0
    /\ wd_thread = Nothing
    /\ clock = 0
    /\ sync = NoSync
    /\ web_data = [voltages |-> [i \in 1..num_series_banks |-> 0], alerts |-> {},
                   balancing |-> FALSE, system_status |-> "Initializing"]
    /\ ntc = NoNtc
    /\ topo = TempTopo
    /\ startup_set = FALSE
    /\ startup_median = Nothing
    /\ startup_offsets = Nothing
    /\ offsets_file = Nothing
    /\ raw_temps = <<>>
    /\ \E calibrated \in DevVals : calibrated_temps = <<Some(calibrated)>>
    /\ \E bank_median \in DevVals :
          bank_stats = <<[median |-> bank_median, invalid |-> 0]>>
    /\ previous_temps = <<>>
    /\ previous_bank_medians = <<>>
    /\ run_count = 0
    /\ calibrating = FALSE

\* check_deviation(calibrated, bank_median, ch, alerts, ...) for channel 1
DevCheck ==
    /\ pc = "d_check"
    /\ temps_alerts' = check_deviation(calibrated_temps[1][1], bank_stats[1].median, 1)
    /\ pc' = "d_done"
    /\ UNCHANGED <<startup_vars, battery_voltages, any_low_temp, alert_needed,
                   all_alerts, balancer_failed, balancing_active, rest_elapsed,
                   relays, dcdc, op, web_data, ntc, topo, vread, event_log, alive_timestamp, wd_thread, clock, sync, temp_vars, alarm>>

DevNext == DevCheck

SpecDeviation == DevInit /\ [][DevNext]_vars

------------------------------------------------------------------------------
(* check_for_issues on its own.                                             *)

\* the bank voltages handed to check_for_issues: none, zero, below, at and
\* above the thresholds; startup_failed and startup_alerts as
\* startup_self_test leaves them: the flag is set only together with a
\* non-empty list
IssueInit ==
    /\ pc = "i_check"
    /\ retries = 0
    /\ pairs = <<>>
    /\ alerts = {}
    /\ \E f \in {<<FALSE, {}>>, <<FALSE, {<<"Self-test failure", 0>>}>>,
                 <<TRUE, {<<"Self-test failure", 0>>}>>} :
          startup_failed = f[1] /\ startup_alerts = f[2]
    /\ balancer_failed \in BOOLEAN
    /\ balancing_active = FALSE
    /\ rest_elapsed = BalanceRestPeriodSeconds + 1
    /\ relays = {}
    /\ dcdc = FALSE
    /\ battery_voltages \in
          [Banks -> {None, 0, LowVoltageThresholdPerBattery - 1,
                     LowVoltageThresholdPerBattery, HighVoltageThresholdPerBattery,
                     HighVoltageThresholdPerBattery + 1}]
    /\ temps_alerts \in {{}, {<<"Temp anomaly", 0>>}}
    /\ any_low_temp = FALSE
    /\ alert_needed = FALSE
    /\ all_alerts = {}
    /\ op = NoOp
    /\ alarm = FALSE
    /\ vread = NoVread
    /\ event_log = <<>>
    /\ alive_timestamp = 0
    /\ wd_thread = Nothing
    /\ clock = 0
    /\ sync = NoSync
    /\ web_data = [voltages |-> [i \in 1..num_series_banks |-> 0], alerts |-> {},
                   balancing |-> FALSE, system_status |-> "Initializing"]
    /\ ntc = NoNtc
    /\ topo = NoTopo
    /\ TempIdle

\* alert_needed, all_alerts = check_for_issues(battery_voltages, temps_alerts,
\* settings), with the alarm relay it drives
IssueCheck ==
    /\ pc = "i_check"
    /\ LET chk == check_for_issues(battery_voltages, temps_alerts, startup_failed,
                                   startup_alerts, balancer_failed)
       IN /\ alert_needed' = chk.alert_needed
          /\ all_alerts' = chk.alerts
          /\ alarm' = chk.alarm
    /\ pc' = "i_done"
    /\ UNCHANGED <<startup_vars, balancer_failed, balancing_active, rest_elapsed,
                   relays, dcdc, battery_voltages, temps_alerts, any_low_temp, op,
                   web_data, call_vars>>

IssueNext == IssueCheck

SpecIssues == IssueInit /\ [][IssueNext]_vars

------------------------------------------------------------------------------
(* read_voltage_with_retry: rounds of two samples.                          *)

\* "for attempt in range(2)" and "for _ in range(2)"
VoltageReadAttempts == 2
SamplesPerRound == 2

\* raw code to volts, "raw_adc * (6.144 / 32767) / voltage_divider_ratio *
\* calibration_factor": a positive factor, here two voltage units per code,
\* so that the mean of two readings is a whole number of units
UnitsPerCode == 2
ActualVoltage(raw_adc) == IF raw_adc # 0 THEN raw_adc * UnitsPerCode ELSE 0

Sum(readings) == IF Len(readings) = 0 THEN 0
                 ELSE IF Len(readings) = 1 THEN readings[1]
                 ELSE readings[1] + readings[2]

\* mutant: a reading of 0.0 never counts as valid
WithinTolerance_nonzero(r, sum, len) ==
    r # 0 /\ 20 * Abs(len * r - sum) <= sum

\* "abs(r - average) / (average if average != 0 else 1) <= 0.05" for the
\* average sum / len, compared exactly (readings are not negative)
WithinTolerance(r, sum, len) ==
    IF sum # 0 THEN 20 * Abs(len * r - sum) <= sum
    ELSE 20 * Abs(r) <= 1

\* valid_readings of a round with the given readings
ValidReadings(readings) ==
    SelectSeq(readings, LAMBDA r : WithinTolerance(r, Sum(readings), Len(readings)))

VoltInit ==
    /\ pc = "v_call"
    /\ retries = 0
    /\ pairs = <<>>
    /\ alerts = {}
    /\ startup_failed = FALSE
    /\ startup_alerts = {}
    /\ balancer_failed = FALSE
    /\ balancing_active = FALSE
    /\ rest_elapsed = BalanceRestPeriodSeconds + 1
    /\ relays = {}
    /\ dcdc = FALSE
    /\ battery_voltages = <<>>
    /\ temps_alerts = {}
    /\ any_low_temp = FALSE
    /\ alert_needed = FALSE
    /\ all_alerts = {}
    /\ op = NoOp
    /\ alarm = FALSE
    /\ sync = NoSync
    /\ web_data = [voltages |-> [i \in 1..num_series_banks |-> 0], alerts |-> {},
                   balancing |-> FALSE, system_status |-> "Initializing"]
    /\ ntc = NoNtc
    /\ topo = NoTopo
    /\ TempIdle
    /\ \E bank_id \in Banks :
          vread = [NoVread EXCEPT !.state = "reading", !.bank_id = bank_id]
    /\ event_log = <<>>
    /\ alive_timestamp = 0
    /\ wd_thread = Nothing
    /\ clock = 0

\* one pass of "for attempt in range(2)": two samples, the filter, and the
\* return of the mean of the valid readings or the next attempt
VoltRound ==
    /\ vread.state = "reading"
    \* the raw codes the converter delivers (0 also stands for an IOError of
    \* the bus: "raw_adc = 0")
    /\ \E raw_values \in [1..SamplesPerRound -> {0, 100, 104, 120}] :
         LET readings       == [i \in 1..SamplesPerRound |-> ActualVoltage(raw_values[i])]
             valid_readings == ValidReadings(readings)
             rounds         == Append(vread.rounds, readings)
         IN IF valid_readings # <<>>
            THEN vread' = [vread EXCEPT
                             !.state = "done", !.rounds = rounds,
                             !.result = Sum(valid_readings) \div Len(valid_readings)]
            ELSE IF vread.attempt + 1 >= VoltageReadAttempts
            THEN vread' = [vread EXCEPT !.state = "done", !.rounds = rounds,
                                        !.attempt = @ + 1, !.result = None]
            ELSE vread' = [vread EXCEPT !.rounds = rounds, !.attempt = @ + 1]
    \* "alive_timestamp = time.time()" before every sample (1423-1445)
    /\ alive_timestamp' = clock
    /\ UNCHANGED <<main_thread_vars, ntc, topo, temp_vars, sync, event_log,
                   wd_thread, clock>>

VoltNext == VoltRound

SpecVolt == VoltInit /\ [][VoltNext]_vars

-----------------------------------------------------------------------------
(* Properties.                                                              *)

Idle == relays = {} /\ ~dcdc

FailureAlert == <<"Balancing failed", op.high>>

Spread == Max(battery_voltages) - Min(battery_voltages)

\* C1: once balancer_failed is True it is True in every later state: no step
\* of the self-test, of the main loop or of the web thread sets it back.
C1_LatchNeverCleared == [][balancer_failed => balancer_failed']_vars

\* C1 witness: a poll cycle has been published with the latch set.
C1_Witness == balancer_failed /\ pc = "poll" /\ web_data.system_status = "Alert"

\* C2: while the latch is set no relay line is asserted and the converter is
\* not enabled, on any code path (main loop, manual request, startup test).
C2_NoActuationWhileLatched == balancer_failed => Idle

\* C3: in a poll whose temperature alert list is non-empty the controller
\* stays Idle: no relay line asserted, converter off, whatever the spread,
\* the heating condition or a pending manual request.
C3_TempAlertsKeepIdle ==
    temps_alerts # {} => (Idle /\ pc \notin {"balancing", "reset"})

\* C3 witness: balance_battery_voltages was called in a poll with temperature
\* alerts and returned at its guard.
C3_Witness == pc = "publish" /\ op.outcome = "skipped_alerts" /\ temps_alerts # {}

\* the balance operation of this poll passed its timed loop and its verification step
OperationEnded == pc \in {"publish", "crashed"} /\ op.n >= 1

\* C4: an operation with 3 or more samples is Verified (latch unchanged, no
\* alert) iff source_change < 0, dest_change > 0, |source_change| >= min_delta
\* and dest_change >= min_delta; otherwise it is Failed, the latch is set and
\* a diagnostic alert is appended.
C4_VerificationDecides ==
    (OperationEnded /\ op.n >= 3) =>
        /\ op.outcome \in {"verified", "failed"}
        /\ op.outcome = "verified" <=>
              /\ op.voltage_high - op.initial_high_v < 0
              /\ op.voltage_low - op.initial_low_v > 0
              /\ Abs(op.voltage_high - op.initial_high_v) >= min_voltage_delta
              /\ op.voltage_low - op.initial_low_v >= min_voltage_delta
        /\ op.outcome = "verified" => (~balancer_failed /\ FailureAlert \notin temps_alerts)
        /\ op.outcome = "failed" => (balancer_failed /\ FailureAlert \in temps_alerts)

\* C5: an operation that ends with fewer than 3 samples is Failed: the latch
\* is set and a diagnostic alert is appended.
C5_FewSamplesFail ==
    (OperationEnded /\ op.n < 3) => (balancer_failed /\ FailureAlert \in temps_alerts)

\* C6: relays are asserted and the converter enabled only if the destination
\* voltage read at entry is a number > 0; a reading of 0 or None keeps the
\* controller Idle and the operation completes without raising.
C6_DestVoltageGuard ==
    /\ pc \in {"balancing", "reset"} => (op.initial_low_v # None /\ op.initial_low_v > 0)
    /\ (op.initial_low_v = None \/ op.initial_low_v = 0) => pc # "crashed"

\* C7: a non-heating operation is engaged only when more than
\* BalanceRestPeriodSeconds have passed since the last operation ended and the
\* spread exceeds VoltageDifferenceToBalance, automatic or manual alike.
C7_NonHeatingGuards ==
    (pc = "balancing" /\ ~op.is_heating) =>
        (rest_elapsed > BalanceRestPeriodSeconds /\ Spread > VoltageDifferenceToBalance)

\* the cycle's conditions for a heating balance as C8 lists them
HeatingConditions ==
    /\ any_low_temp
    /\ ~alert_needed
    /\ ~balancer_failed
    /\ Min(battery_voltages) > 0
    /\ rest_elapsed > BalanceRestPeriodSeconds

C9_ActuatorsReleased ==
    /\ pc \in {"poll", "verify", "publish", "crashed"} => Idle
    /\ pc = "reset" => ~dcdc

\* C9 witness: an operation that engaged the actuators has returned.
C9_Witness == pc = "publish" /\ op.outcome = "verified" /\ Idle

\* every attempt of the running or finished call timed out, and the call is done
TimedOutCall == ntc.state = "done" /\ ntc.only_timeouts /\ ntc.attempts > 0

NamesUnit == ntc.result.kind \notin {"none", "values"} /\ ntc.result.slave = ntc.slave_addr

\* C10 as stated: if every attempt times out the call ends with an error that
\* names the unit after exactly max_retries attempts, whatever the probe says.
C10_ExactlyMaxRetries ==
    TimedOutCall => (NamesUnit /\ ntc.attempts = ntc.max_retries)

\* C10 amended: if every attempt times out the call ends with an error that
\* names the unit after at most max_retries attempts: exactly max_retries when
\* max_retries <= 3, and otherwise either max_retries or, with "Network
\* unreachable", the attempt after which the probe failed for the third time.
C10_AttemptsBounded ==
    TimedOutCall =>
        /\ NamesUnit
        /\ ntc.attempts <= ntc.max_retries
        /\ ntc.max_retries <= 3 => ntc.attempts = ntc.max_retries
        /\ ntc.attempts < ntc.max_retries =>
              (ntc.network_retry_count = 3 /\ ntc.result.kind = "Network unreachable")

\* C10 witness: max_retries = 3, three timeouts, three connection attempts.
C10_Witness ==
    TimedOutCall /\ ntc.max_retries = 3 /\ ntc.attempts = 3 /\ NamesUnit

\* the call has returned
NtcReturned == ntc.state = "done"

\* C11: every call of read_ntc_sensors ends with a list of exactly
\* num_channels values or with an error string that contains the unit id;
\* never with a shorter or longer list.
C11_ListOrUnitError ==
    NtcReturned =>
        \/ ntc.result.kind = "values" /\ ntc.result.count = NumChannels
        \/ NamesUnit

\* C12: the call ends with "Network unreachable" only after 3 failures with
\* the network down, and with "Failed after max_retries attempts" only after
\* max_retries failures with the network up: the two budgets are independent.
C12_IndependentBudgets ==
    NtcReturned =>
        /\ ntc.result.kind = "Network unreachable" => ntc.network_retry_count = 3
        /\ ntc.result.kind = "Failed after attempts" =>
              ntc.device_failures = ntc.max_retries

ValidChannel == topo.queried /\ topo.ch \in 1..total_channels(topo)

\* C17: for every configuration the lookup of a channel of 1..total_channels
\* gives a battery of 1..parallel and a local channel of 1..sensors_per_battery
\* from which the channel is recovered (the mapping is one-to-one and onto),
\* and the bank is ((local_channel - 1) div sensors_per_bank) + 1.
C17_TopologyBijection ==
    ValidChannel =>
        /\ topo.bat_id \in 1..topo.number_parallel
        /\ topo.local_ch \in 1..sensors_per_battery(topo)
        /\ (topo.bat_id - 1) * sensors_per_battery(topo) + topo.local_ch = topo.ch
        /\ topo.bank = ((topo.local_ch - 1) \div topo.sensors_per_bank) + 1

\* C18: for a channel outside 1..total_channels both lookups give an explicit
\* out-of-range result: no bank, and no battery/local pair.
C18_OutOfRangeExplicit ==
    (topo.queried /\ topo.ch \notin 1..total_channels(topo)) =>
        /\ topo.bank = None
        /\ topo.bat_id \notin 1..topo.number_parallel
        /\ topo.local_ch \notin 1..sensors_per_battery(topo)

\* unit i was not read in the reads that produced raw_temps: by the main loop,
\* or by the attempt of the startup self-test that is to be repeated
UnitReadFailed(i) ==
    \/ /\ pc \in {"t_poll", "crashed"}
       /\ <<"Modbus slave failed", modbus_slave_addresses[i]>> \in temps_alerts
    \/ /\ pc = "t_startup"
       /\ <<"Initial temp read failure", modbus_slave_addresses[i]>> \in startup_alerts

\* the entries of raw_temps that belong to unit i when every unit filled its
\* sensors_per_battery places
UnitEntries(i) ==
    {raw_temps[(i - 1) * SensorsPerBattery + k] : k \in 1..SensorsPerBattery}

\* C13: when the read of a unit fails, the raw values recorded for its
\* channels are a sentinel that no successful read can deliver: none of them
\* equals a value a register can hold (valid_min, 0.0, in particular).
C13_FailureSentinelDistinct ==
    \A i \in DOMAIN modbus_slave_addresses :
        (UnitReadFailed(i) /\ Len(raw_temps) = TotalChannels) =>
            UnitEntries(i) \cap AllRawVals = {}

\* the read of some unit failed in the last poll of the main loop
PollWithFailedUnit ==
    /\ pc \in {"t_poll", "crashed"}
    /\ \E i \in DOMAIN modbus_slave_addresses :
          <<"Modbus slave failed", modbus_slave_addresses[i]>> \in temps_alerts

\* the balance decision of the poll engages an operation for some voltages
BalanceEngaged ==
    \E bv \in PollReadings, active \in BOOLEAN :
        LET volts == [i \in 1..num_series_banks |-> bv[i]]
            chk   == check_for_issues(volts, temps_alerts, startup_failed,
                                      startup_alerts, balancer_failed)
        IN /\ BalanceDecision(balancer_failed, active, chk.alert_needed,
                              any_low_temp, Max(volts), Min(volts), rest_elapsed)
           /\ ~SkipForTempAlerts(temps_alerts)

\* C14: a failed read of one unit never halts acquisition and always gates
\* balancing: the raw vector of that poll has total_channels entries, the
\* alerts name the failed unit, no balance operation is engaged, and the loop
\* goes on to the next poll.
C14_FailedReadGatesOnly ==
    PollWithFailedUnit =>
        /\ Len(raw_temps) = TotalChannels
        /\ ~BalanceEngaged
        /\ pc = "t_poll"

\* C15: calibration is one-shot and irreversible: the state becomes
\* Calibrated only with reads in which every channel exceeds valid_min, and
\* once startup_set holds it holds for ever with the same offsets, across
\* retries of the startup self-test and later fully valid polls.
C15_CalibrationOneShot ==
    [][/\ startup_set => (startup_set' /\ startup_offsets' = startup_offsets)
       /\ (~startup_set /\ startup_set') => ValidCount(raw_temps') = TotalChannels]_vars

\* a poll of the main loop has computed calibrated_temps from raw_temps
PollDone == pc = "t_poll" /\ run_count = 1

AbsentIffInvalid(ch) ==
    calibrated_temps[ch] = Nothing <=> raw_temps[ch] <= valid_min

OffsetApplied(ch) ==
    raw_temps[ch] > valid_min =>
        calibrated_temps[ch] =
            IF startup_set THEN Some(FAdd(raw_temps[ch], startup_offsets[1][ch]))
            ELSE Some(raw_temps[ch])

\* C16: the calibrated reading of a channel is absent exactly when its raw
\* value is <= valid_min; otherwise it is raw + offset once calibrated and raw
\* itself before; and at the calibrating poll the calibrated value of every
\* channel equals the calibration median.
C16_CalibratedEqualsMedian ==
    PollDone =>
        \A ch \in Channels :
            /\ AbsentIffInvalid(ch)
            /\ OffsetApplied(ch)
            /\ calibrating => calibrated_temps[ch] = startup_median

\* C16 amended: absent exactly when raw <= valid_min, else raw + offset in
\* floating point once calibrated and raw before; at the poll in which the
\* main loop calibrates, offset = median - raw in floating point, and the
\* calibrated value equals the median whenever that difference is exact
\* (otherwise it is the rounded sum of raw and the rounded difference).
C16_CalibratedReading ==
    PollDone =>
        \A ch \in Channels :
            /\ AbsentIffInvalid(ch)
            /\ OffsetApplied(ch)
            /\ calibrating =>
                  /\ startup_offsets[1][ch] = FSub(startup_median[1], raw_temps[ch])
                  /\ Representable(startup_median[1] - raw_temps[ch]) =>
                        calibrated_temps[ch] = startup_median

\* C16 witness: a calibrating poll of the main loop in which a channel gets an
\* offset other than zero and its calibrated value is raw + offset.
C16_Witness ==
    /\ PollDone
    /\ calibrating
    /\ \E ch \in Channels :
          /\ startup_offsets[1][ch] # 0
          /\ calibrated_temps[ch] = Some(FAdd(raw_temps[ch], startup_offsets[1][ch]))

BankOf(ch) == get_bank_for_channel(ch, BankIndices)

Alerted(kind, ch) == TempAlert(kind, ch) \in temps_alerts

\* C19: in a poll, a channel with raw <= valid_min gets an invalid-reading
\* alert, is counted in the invalid count of its bank, and gets none of the
\* high, low, deviation, abnormal-rise and group-lag alerts; for a channel
\* with raw > valid_min the high, low and deviation checks are each decided
\* by their own condition, so that they may fire together.
C19_InvalidSkipsChecks ==
    PollDone =>
        /\ \A ch \in Channels :
              IF raw_temps[ch] <= valid_min
              THEN /\ Alerted("Invalid reading", ch)
                   /\ \A kind \in {"High temp", "Low temp", "Deviation",
                                    "Abnormal rise", "Lag"} : ~Alerted(kind, ch)
              ELSE /\ ~Alerted("Invalid reading", ch)
                   /\ Alerted("High temp", ch) <=>
                         calibrated_temps[ch][1] > high_threshold
                   /\ Alerted("Low temp", ch) <=>
                         calibrated_temps[ch][1] < low_threshold
                   /\ Alerted("Deviation", ch) <=>
                         DeviationExceeded(calibrated_temps[ch][1],
                                           bank_stats[BankOf(ch)].median)
        /\ \A b \in 1..num_series_banks :
              bank_stats[b].invalid =
                 Cardinality({ch \in Channels :
                                 BankOf(ch) = b /\ raw_temps[ch] <= valid_min})

\* C19 witness: a poll with a channel at valid_min, reported and counted as
\* invalid, and a valid channel with a low and a deviation alert together.
C19_Witness ==
    /\ PollDone
    /\ \E ch \in Channels :
          /\ raw_temps[ch] <= valid_min
          /\ Alerted("Invalid reading", ch)
          /\ bank_stats[BankOf(ch)].invalid >= 1
    /\ \E ch \in Channels :
          /\ raw_temps[ch] > valid_min
          /\ Alerted("Low temp", ch)
          /\ Alerted("Deviation", ch)

DeviationChecked == pc = "d_done"

DeviationAlerted == TempAlert("Deviation", 1) \in temps_alerts

\* C20: check_deviation alerts if and only if |calibrated - bank_median| >
\* abs_deviation_threshold, or bank_median # 0 and |calibrated - bank_median|
\* / |bank_median| > deviation_threshold; with bank_median = 0 only the
\* absolute term can fire.
C20_DeviationAlertIff ==
    DeviationChecked =>
        LET calibrated  == calibrated_temps[1][1]
            bank_median == bank_stats[1].median
            abs_dev     == Abs(calibrated - bank_median)
        IN /\ DeviationAlerted <=>
                 \/ abs_dev > abs_deviation_threshold
                 \/ /\ bank_median # 0
                    /\ abs_dev * deviation_threshold_den >
                          deviation_threshold_num * Abs(bank_median)
           /\ bank_median = 0 =>
                 (DeviationAlerted <=> abs_dev > abs_deviation_threshold)

\* C20 witness: the relative term alone raises the alert (median 5, reading 6).
C20_Witness ==
    /\ DeviationChecked
    /\ DeviationAlerted
    /\ bank_stats[1].median # 0
    /\ Abs(calibrated_temps[1][1] - bank_stats[1].median) <= abs_deviation_threshold

\* a step of the main loop from one completed temperature section to the next
PollStep == pc = "t_poll" /\ pc' = "t_poll" /\ run_count' = 1

\* C21: a sudden-disconnection alert for a channel is emitted in a poll if and
\* only if the poll is not the first one, the calibrated reading of the channel
\* was present in the previous poll and it is absent in this one; so it is
\* emitted on the poll of the transition only, not while the channel stays
\* invalid.
C21_DisconnectionOnTransition ==
    [][PollStep =>
         \A ch \in Channels :
            (TempAlert("Sudden disconnection", ch) \in temps_alerts') <=>
               /\ run_count > 0
               /\ previous_temps[ch] # Nothing
               /\ calibrated_temps'[ch] = Nothing]_vars

\* C21 witness: a poll reports the disconnection of a channel whose reading
\* is absent.
C21_Witness ==
    /\ PollDone
    /\ \E ch \in Channels :
          /\ Alerted("Sudden disconnection", ch)
          /\ calibrated_temps[ch] = Nothing

\* the rise of the median of the bank of ch between two polls
BankMedianRise(ch) ==
    FSub(bank_stats'[BankOf(ch)].median, previous_bank_medians[BankOf(ch)])

\* C22: no abnormal-rise or group-lag alert on the first poll; on a later
\* poll, for a channel valid in the previous and in the current poll, the
\* abnormal-rise alert fires iff current - previous > rise_threshold and the
\* group-lag alert iff |(current - previous) - bank_median_rise| >
\* disconnection_lag_threshold, with bank_median_rise the median of the bank
\* in this poll minus its median in the previous poll.
C22_RiseAndLag ==
    [][PollStep =>
         \A ch \in Channels :
            IF run_count = 0
            THEN /\ TempAlert("Abnormal rise", ch) \notin temps_alerts'
                 /\ TempAlert("Lag", ch) \notin temps_alerts'
            ELSE (previous_temps[ch] # Nothing /\ calibrated_temps'[ch] # Nothing) =>
                   LET rise == FSub(calibrated_temps'[ch][1], previous_temps[ch][1])
                   IN /\ (TempAlert("Abnormal rise", ch) \in temps_alerts') <=>
                            rise > rise_threshold
                      /\ (TempAlert("Lag", ch) \in temps_alerts') <=>
                            Abs(FSub(rise, BankMedianRise(ch))) >
                               disconnection_lag_threshold]_vars

\* C22 witness: a later poll in which a channel has risen by more than
\* rise_threshold while another channel of the same poll lags behind its bank
\* without having risen.
C22_Witness ==
    /\ PollDone
    /\ \E ch \in Channels : Alerted("Abnormal rise", ch) /\ Alerted("Lag", ch)
    /\ \E ch \in Channels : ~Alerted("Abnormal rise", ch) /\ Alerted("Lag", ch)

\* the channels of bank b with a calibrated reading, and their readings
ValidChannelsOf(b) ==
    {ch \in Channels : BankOf(ch) = b /\ calibrated_temps[ch] # Nothing}

ValidReadingsOf(b) == {calibrated_temps[ch][1] : ch \in ValidChannelsOf(b)}

\* C23: for every bank and every poll compute_bank_medians returns invalid =
\* the number of channels of the bank without calibrated reading, invalid +
\* number of valid readings = size of the bank; min and max are the smallest
\* and largest valid reading and the median lies between them with half of
\* the valid readings on either side; a bank without valid reading reports
\* median = min = max = 0.
C23_BankStats ==
    PollDone =>
        \A b \in 1..num_series_banks :
            LET st    == bank_stats[b]
                size  == Cardinality(BankIndices[b])
                chs   == ValidChannelsOf(b)
                n     == Cardinality(chs)
            IN /\ st.invalid =
                     Cardinality({ch \in Channels :
                                     BankOf(ch) = b /\ calibrated_temps[ch] = Nothing})
               /\ st.invalid + n = size
               /\ IF n = 0
                  THEN st.median = 0 /\ st.min = 0 /\ st.max = 0
                  ELSE /\ st.min \in ValidReadingsOf(b)
                       /\ st.max \in ValidReadingsOf(b)
                       /\ \A v \in ValidReadingsOf(b) : st.min <= v /\ v <= st.max
                       /\ st.min <= st.median /\ st.median <= st.max
                       /\ 2 * Cardinality({ch \in chs :
                                calibrated_temps[ch][1] <= st.median}) >= n
                       /\ 2 * Cardinality({ch \in chs :
                                calibrated_temps[ch][1] >= st.median}) >= n

\* C23 witness: a poll with one bank without any valid reading and another
\* bank with one absent and one valid reading.
C23_Witness ==
    /\ PollDone
    /\ \E b \in 1..num_series_banks :
          ValidChannelsOf(b) = {} /\ bank_stats[b].median = 0
    /\ \E b \in 1..num_series_banks :
          /\ bank_stats[b].invalid = 1
          /\ bank_stats[b].min > 0
          /\ bank_stats[b].min = bank_stats[b].max

IssuesChecked == pc = "i_done"

\* bank i has a voltage issue: absent, 0, above the high or below the low
\* threshold
VoltageIssue(i) ==
    \/ battery_voltages[i] = None
    \/ battery_voltages[i] = 0
    \/ battery_voltages[i] > HighVoltageThresholdPerBattery
    \/ battery_voltages[i] < LowVoltageThresholdPerBattery

VoltageAlertsOf(i) ==
    {a \in all_alerts :
        a \in {<<"Zero voltage", i>>, <<"High voltage", i>>, <<"Low voltage", i>>}}

\* C24: check_for_issues returns alert_needed True if and only if
\* startup_failed or balancer_failed is set, or some bank voltage is absent,
\* 0, above the high or below the low threshold, or there is a temperature
\* alert; the merged alerts hold every temperature alert, one alert per
\* voltage issue and one per set flag; and the alarm line is HIGH exactly when
\* alert_needed is True.
C24_IssueAggregation ==
    IssuesChecked =>
        /\ alert_needed <=>
              \/ startup_failed
              \/ balancer_failed
              \/ \E i \in Banks : VoltageIssue(i)
              \/ temps_alerts # {}
        /\ temps_alerts \subseteq all_alerts
        /\ \A i \in Banks :
              Cardinality(VoltageAlertsOf(i)) = IF VoltageIssue(i) THEN 1 ELSE 0
        /\ <<"Balancer hardware failure", 0>> \in all_alerts <=> balancer_failed
        /\ <<"Startup failures", 0>> \in all_alerts <=> startup_failed
        /\ alarm <=> alert_needed

\* C24 witness: one bank above the high threshold, the other below the low
\* one, a temperature alert and the latch: four alerts and the alarm.
C24_Witness ==
    /\ IssuesChecked
    /\ alert_needed /\ alarm
    /\ balancer_failed
    /\ <<"High voltage", 1>> \in all_alerts
    /\ <<"Low voltage", 2>> \in all_alerts
    /\ temps_alerts # {}
    /\ Cardinality(all_alerts) = 4

\* the main loop publishes the snapshot of a cycle that began with the latch
\* set: a cycle after the one whose verification failed
PublishAfterFailure ==
    /\ pc = "publish" /\ pc' = "poll"
    /\ balancer_failed
    /\ op.outcome # "failed"

\* C25: after a verification has failed, the snapshot published by every later
\* cycle holds a balancer-failure alert in its merged alerts and the status
\* 'Alert'.
C25_FailurePublished ==
    [][PublishAfterFailure =>
         /\ <<"Balancer hardware failure", 0>> \in web_data'.alerts
         /\ web_data'.system_status = "Alert"]_vars

\* C25 witness: a published snapshot with the balancer-failure alert.
C25_Witness ==
    /\ pc = "poll"
    /\ balancer_failed
    /\ <<"Balancer hardware failure", 0>> \in web_data.alerts
    /\ web_data.system_status = "Alert"

VoltageReturned == vread.state = "done"

\* the samples of a round that lie within 5% of the mean of the round
Survivors(round) ==
    {i \in DOMAIN round :
        20 * Abs(2 * round[i] - (round[1] + round[2])) <= round[1] + round[2]}

\* the mean of the surviving samples of a round, doubled
SurvivorSum2(round) ==
    IF Cardinality(Survivors(round)) = 2 THEN round[1] + round[2]
    ELSE IF Survivors(round) = {1} THEN 2 * round[1]
    ELSE 2 * round[2]

\* C26: read_voltage_with_retry takes rounds of two samples; a round with at
\* least one sample within 5% of the mean of the pair ends the call with the
\* mean of the surviving samples, any other round is retried, and None is
\* returned exactly when 2 rounds in a row had no survivor; two raw codes of
\* zero make a successful round that returns 0.0.
C26_VoltageRounds ==
    VoltageReturned =>
        LET rounds == vread.rounds
            last   == rounds[Len(rounds)]
        IN /\ Len(rounds) \in 1..2
           /\ \A k \in 1..Len(rounds) : Len(rounds[k]) = 2
           /\ \A k \in 1..(Len(rounds) - 1) : Survivors(rounds[k]) = {}
           /\ vread.result = None <=>
                 (Len(rounds) = 2 /\ Survivors(last) = {})
           /\ vread.result # None =>
                 (Survivors(last) # {} /\ 2 * vread.result = SurvivorSum2(last))
           /\ last = <<0, 0>> => vread.result = 0

\* C26 witness: the first round has no survivor and the second one, two raw
\* codes of zero, returns 0.0.
C26_Witness ==
    /\ VoltageReturned
    /\ Len(vread.rounds) = 2
    /\ vread.rounds[2] = <<0, 0>>
    /\ vread.result = 0


\* read_ntc_sensors against a unit that answers every request with the same
\* response: ntc.response is "response", ntc.error the message of the
\* ValueError the validation raised last
RespInit ==
    /\ pc = "call"
    /\ retries = 0
    /\ pairs = <<>>
    /\ alerts = {}
    /\ startup_failed = FALSE
    /\ startup_alerts = {}
    /\ balancer_failed = FALSE
    /\ balancing_active = FALSE
    /\ rest_elapsed = BalanceRestPeriodSeconds + 1
    /\ relays = {}
    /\ dcdc = FALSE
    /\ battery_voltages = <<>>
    /\ temps_alerts = {}
    /\ any_low_temp = FALSE
    /\ alert_needed = FALSE
    /\ all_alerts = {}
    /\ op = NoOp
    /\ alarm = FALSE
    /\ vread = NoVread
    /\ event_log = <<>>
    /\ alive_timestamp = 0
    /\ wd_thread = Nothing
    /\ clock = 0
    /\ sync = NoSync
    /\ web_data = [voltages |-> [i \in 1..num_series_banks |-> 0], alerts |-> {},
                   balancing |-> FALSE, system_status |-> "Initializing"]
    /\ topo = NoTopo
    /\ TempIdle
    /\ \E m \in 1..MaxRetries, a \in SlaveAddrs, frame \in Frames :
         ntc = [state |-> "running", max_retries |-> m, slave_addr |-> a, attempt |-> 0,
                network_retry_count |-> 0, device_failures |-> 0, attempts |-> 0,
                only_timeouts |-> TRUE, result |-> NoResult,
                response |-> frame, error |-> "none"]

\* one pass of the loop in which the response arrives: the validation, then
\* the return of the exception code, the except ValueError handler or the
\* return of the values
RespValidate ==
    /\ Attempting
    /\ \E probe_ok \in BOOLEAN :
       \E verdict \in {Validate(ntc.response, ntc.slave_addr)} :
       \E n \in {[Connected(ntc) EXCEPT !.only_timeouts = FALSE]} :
         ntc' = IF verdict = "Modbus exception"
                THEN [n EXCEPT !.state = "done",
                               !.result = ExceptionResult(ntc.response, ntc.slave_addr)]
                ELSE IF verdict = "ok"
                THEN [n EXCEPT !.state = "done",
                               !.result = [kind |-> "values", slave |-> ntc.slave_addr,
                                           count |-> DecodedCount(ntc.response)]]
                ELSE AfterFailure([n EXCEPT !.error = verdict], probe_ok)
    /\ UNCHANGED <<main_thread_vars, topo, temp_vars, vread, event_log, alive_timestamp, wd_thread, clock, sync>>

RespNext ==
    \/ RespValidate
    \/ NtcExhausted

SpecResponse == RespInit /\ [][RespNext]_vars

\* ---------------------------------------------------------------------------
\* web_data between the main thread and the web thread (data_lock).
\* Every field of web_data holds the number of the update that wrote it, so
\* that a view mixing two updates can be told from a published snapshot.
\* sync.committed holds the snapshots the updates started so far lead to.
\* ---------------------------------------------------------------------------
MaxUpdates == 3

\* the fields in the order main writes them in the "with data_lock" block
PublishOrder == <<"voltages", "alerts", "balancing", "system_status">>

LockInit ==
    /\ pc = "l_startup"
    /\ retries = 0
    /\ pairs = <<>>
    /\ alerts = {}
    /\ startup_failed = FALSE
    /\ startup_alerts = {}
    /\ balancer_failed = FALSE
    /\ balancing_active = FALSE
    /\ rest_elapsed = BalanceRestPeriodSeconds + 1
    /\ relays = {}
    /\ dcdc = FALSE
    /\ battery_voltages = <<>>
    /\ temps_alerts = {}
    /\ any_low_temp = FALSE
    /\ alert_needed = FALSE
    /\ all_alerts = {}
    /\ op = NoOp
    /\ alarm = FALSE
    /\ vread = NoVread
    /\ event_log = <<>>
    /\ alive_timestamp = 0
    /\ wd_thread = Nothing
    /\ clock = 0
    /\ ntc = NoNtc
    /\ topo = NoTopo
    /\ TempIdle
    /\ web_data = [f \in {PublishOrder[i] : i \in 1..Len(PublishOrder)} |-> 0]
    /\ sync = [NoSync EXCEPT !.seen = [f \in DOMAIN web_data |-> None],
                             !.committed = {web_data}]

\* startup_self_test, failed attempt: system_status, then alerts, no lock taken;
\* a passed attempt writes nothing and main goes on to the loop
StartupWrite ==
    /\ \/ /\ pc = "l_startup"
          /\ sync.gen < MaxUpdates
          /\ web_data' = [web_data EXCEPT !.system_status = sync.gen + 1]
          /\ sync' = [sync EXCEPT !.gen = @ + 1,
                        !.committed = @ \cup {[web_data EXCEPT !.system_status = sync.gen + 1,
                                                                !.alerts = sync.gen + 1]}]
          /\ pc' = "l_startup_alerts"
       \/ /\ pc = "l_startup_alerts"
          /\ web_data' = [web_data EXCEPT !.alerts = sync.gen]
          /\ \E next \in {"l_startup", "l_poll"} : pc' = next
          /\ UNCHANGED sync
       \/ /\ pc = "l_startup"
          /\ pc' = "l_poll"
          /\ UNCHANGED <<web_data, sync>>
    /\ UNCHANGED <<startup_vars, main_vars, balancer_failed, balancing_active,
                   rest_elapsed, relays, dcdc, op, alarm, vread, event_log, alive_timestamp, wd_thread, clock, ntc, topo, temp_vars>>

\* balance_battery_voltages: web_data['balancing'] = True / False, no lock taken
BalanceFlagWrite ==
    /\ pc = "l_poll"
    /\ sync.gen < MaxUpdates
    /\ web_data' = [web_data EXCEPT !.balancing = sync.gen + 1]
    /\ sync' = [sync EXCEPT !.gen = @ + 1,
                  !.committed = @ \cup {[web_data EXCEPT !.balancing = sync.gen + 1]}]
    /\ UNCHANGED pc
    /\ UNCHANGED <<startup_vars, main_vars, balancer_failed, balancing_active,
                   rest_elapsed, relays, dcdc, op, alarm, vread, event_log, alive_timestamp, wd_thread, clock, ntc, topo, temp_vars>>

\* main, end of a poll cycle: with data_lock: one field after the other
PublishStep ==
    /\ \/ /\ pc = "l_poll"
          /\ sync.gen < MaxUpdates
          /\ sync.lock = "free"
          /\ sync' = [sync EXCEPT !.lock = "main", !.gen = @ + 1, !.step = 1,
                        !.committed = @ \cup {[f \in DOMAIN web_data |-> sync.gen + 1]}]
          /\ pc' = "l_publish"
          /\ UNCHANGED web_data
       \/ /\ pc = "l_publish"
          /\ sync.step <= Len(PublishOrder)
          /\ web_data' = [web_data EXCEPT ![PublishOrder[sync.step]] = sync.gen]
          /\ sync' = [sync EXCEPT !.step = @ + 1]
          /\ UNCHANGED pc
       \/ /\ pc = "l_publish"
          /\ sync.step > Len(PublishOrder)
          /\ sync' = [sync EXCEPT !.lock = "free", !.step = 0]
          /\ pc' = "l_poll"
          /\ UNCHANGED web_data
    /\ UNCHANGED <<startup_vars, main_vars, balancer_failed, balancing_active,
                   rest_elapsed, relays, dcdc, op, alarm, vread, event_log, alive_timestamp, wd_thread, clock, ntc, topo, temp_vars>>

\* /api/status: with data_lock: reads the fields one after the other
StatusRequest ==
    /\ \/ /\ sync.reader = "idle"
          /\ sync.lock = "free"
          /\ sync' = [sync EXCEPT !.lock = "web", !.reader = "status", !.rstep = 0,
                        !.seen = [f \in DOMAIN web_data |-> None]]
       \/ /\ sync.reader = "status"
          /\ sync.rstep < Len(PublishOrder)
          /\ sync' = [sync EXCEPT !.rstep = @ + 1,
                        !.seen[PublishOrder[sync.rstep + 1]] = web_data[PublishOrder[sync.rstep + 1]]]
       \/ /\ sync.reader = "status"
          /\ sync.rstep = Len(PublishOrder)
          /\ sync' = [sync EXCEPT !.lock = "free", !.reader = "idle"]
    /\ UNCHANGED <<startup_vars, main_vars, balancer_failed, balancing_active,
                   rest_elapsed, relays, dcdc, op, alarm, vread, event_log, alive_timestamp, wd_thread, clock, ntc, topo, temp_vars, pc, web_data>>

\* /api/balance: reads web_data['alerts'], then web_data['voltages'], no lock taken
BalanceRequest ==
    /\ \E order \in {<<"alerts", "voltages">>} :
       \/ /\ sync.reader = "idle"
          /\ sync' = [sync EXCEPT !.reader = "balance", !.rstep = 0,
                        !.seen = [f \in DOMAIN web_data |-> None]]
       \/ /\ sync.reader = "balance"
          /\ sync.rstep < Len(order)
          /\ sync' = [sync EXCEPT !.rstep = @ + 1,
                        !.seen[order[sync.rstep + 1]] = web_data[order[sync.rstep + 1]]]
       \/ /\ sync.reader = "balance"
          /\ sync.rstep = Len(order)
          /\ sync' = [sync EXCEPT !.reader = "idle"]
    /\ UNCHANGED <<startup_vars, main_vars, balancer_failed, balancing_active,
                   rest_elapsed, relays, dcdc, op, alarm, vread, event_log, alive_timestamp, wd_thread, clock, ntc, topo, temp_vars, pc, web_data>>

LockNext ==
    \/ StartupWrite
    \/ BalanceFlagWrite
    \/ PublishStep
    \/ StatusRequest
    \/ BalanceRequest

SpecLock == LockInit /\ [][LockNext]_vars

\* the web thread's view agrees with one published snapshot on every field it read
NoTornRead ==
    \E c \in sync.committed :
        \A f \in DOMAIN sync.seen : sync.seen[f] # None => sync.seen[f] = c[f]

\* C27: every write to web_data by the main thread and every read by the web
\* thread happens while the acting thread holds data_lock, and no request of
\* the web thread sees fields of two different updates.
C27_AtomicSnapshot ==
    [][/\ web_data' # web_data => sync.lock = "main"
       /\ sync'.rstep > sync.rstep => sync.lock = "web"
       /\ NoTornRead']_vars

\* ---------------------------------------------------------------------------
\* api_balance, several requests at once: the web server runs every request
\* in a thread of its own (app.run(..., threaded=True)) and api_balance takes
\* no lock, so the test of balancing_active and its assignment are two steps.
\* sync.requests[r] is the position of request r.  web_data is what main
\* published: the voltages of a poll with the alerts check_for_issues raised
\* for them, or the zeros main starts with.
\* ---------------------------------------------------------------------------
MaxRequests == 2

ApiInit ==
    /\ pc = "a_serving"
    /\ retries = 0
    /\ pairs = <<>>
    /\ alerts = {}
    /\ startup_failed = FALSE
    /\ startup_alerts = {}
    /\ balancer_failed = FALSE
    /\ balancing_active \in BOOLEAN
    /\ rest_elapsed = BalanceRestPeriodSeconds + 1
    /\ relays = {}
    /\ dcdc = FALSE
    /\ battery_voltages = <<>>
    /\ temps_alerts = {}
    /\ any_low_temp = FALSE
    /\ alert_needed = FALSE
    /\ all_alerts = {}
    /\ op = NoOp
    /\ alarm = FALSE
    /\ vread = NoVread
    /\ event_log = <<>>
    /\ alive_timestamp = 0
    /\ wd_thread = Nothing
    /\ clock = 0
    /\ ntc = NoNtc
    /\ topo = NoTopo
    /\ TempIdle
    /\ \E n \in {1, num_series_banks} :
       \E voltages \in {f \in [1..n -> UNION {PollVolts(b) : b \in 1..n}] :
                            \A i \in 1..n : f[i] \in PollVolts(i)} :
       \E published \in {UNION {VoltageAlerts(i, voltages[i]) : i \in 1..n}}
                          \cup (IF \A i \in 1..n : voltages[i] = 0 THEN {{}} ELSE {}) :
          web_data = [voltages |-> voltages, alerts |-> published,
                      balancing |-> FALSE, system_status |-> "Running"]
    /\ sync = [NoSync EXCEPT !.requests = [r \in 1..MaxRequests |-> "start"]]

\* "if balancing_active: return ... 400"
ApiCheck(r) ==
    /\ sync.requests[r] = "start"
    /\ sync' = [sync EXCEPT !.requests[r] =
                    IF balancing_active THEN "rejected" ELSE "checked"]
    /\ UNCHANGED <<main_thread_vars, ntc, topo, temp_vars, vread, event_log, alive_timestamp, wd_thread, clock>>

\* the rest of api_balance: the alerts, the number of banks, the spread, and
\* then "balancing_active = True"
ApiDecide(r) ==
    /\ sync.requests[r] = "checked"
    /\ IF \/ Cardinality(web_data.alerts) > 0
          \/ Len(web_data.voltages) < 2
          \/ Max(web_data.voltages) - Min(web_data.voltages) < VoltageDifferenceToBalance
       THEN /\ sync' = [sync EXCEPT !.requests[r] = "rejected"]
            /\ UNCHANGED balancing_active
       ELSE /\ sync' = [sync EXCEPT !.requests[r] = "accepted"]
            /\ balancing_active' = TRUE
    /\ UNCHANGED <<pc, startup_vars, main_vars, balancer_failed, rest_elapsed, relays,
                   dcdc, op, web_data, alarm, ntc, topo, temp_vars, vread, event_log, alive_timestamp, wd_thread, clock>>

ApiNext ==
    \/ \E r \in 1..MaxRequests : ApiCheck(r)
    \/ \E r \in 1..MaxRequests : ApiDecide(r)

SpecApi == ApiInit /\ [][ApiNext]_vars

\* the requests api_balance has answered with success
Accepted == {r \in DOMAIN sync.requests : sync.requests[r] = "accepted"}

\* C28: api_balance sets balancing_active only if no balance is in progress,
\* the published alert set is empty, at least two banks exist and the spread
\* of the published voltages exceeds VoltageDifferenceToBalance; a rejected
\* request leaves balancing_active unchanged; two concurrent requests are
\* never both accepted.
C28_ManualTrigger ==
    [][/\ \A r \in DOMAIN sync.requests :
            /\ (sync'.requests[r] = "accepted" /\ sync.requests[r] # "accepted")
                  => /\ ~balancing_active
                     /\ web_data.alerts = {}
                     /\ Len(web_data.voltages) >= 2
                     /\ Max(web_data.voltages) - Min(web_data.voltages)
                           > VoltageDifferenceToBalance
            /\ (sync'.requests[r] = "rejected" /\ sync.requests[r] # "rejected")
                  => balancing_active' = balancing_active
       /\ Cardinality(Accepted') <= 1]_vars

\* the first check of the code's order that a response fails
FirstFailure(frame, slave_addr) ==
    CHOOSE e \in {"Short response", "CRC mismatch", "Slave address mismatch",
                  "function code", "Byte count mismatch", "ok"} :
        /\ e = "Short response" <=> frame.len < 5
        /\ e = "CRC mismatch" <=> (frame.len >= 5 /\ ~frame.crc_ok)
        /\ e = "Slave address mismatch" <=>
              (frame.len >= 5 /\ frame.crc_ok /\ frame.slave # slave_addr)
        /\ e = "function code" <=>
              (frame.len >= 5 /\ frame.crc_ok /\ frame.slave = slave_addr /\ frame.func # 3)
        /\ e = "ok" <=>
              (/\ frame.len >= 5 /\ frame.crc_ok /\ frame.slave = slave_addr
               /\ frame.func = 3 /\ frame.byte_count = expected_data_length)

\* the function code carries the error bit 0x80
ErrorBit(frame) == (frame.func \div 128) % 2 = 1

\* a pass of the loop of read_ntc_sensors has validated the response
Validated == ntc'.attempts = ntc.attempts + 1

\* C30: the response is validated in the order length >= 5, checksum, unit
\* id, function code, byte count; a response that passes the first three
\* and carries the error bit ends the read at once with the exception code
\* and the unit id, no retry consumed; any other validation failure goes to
\* the retry handling: the next attempt, or the error that ends the retries.
C30_ValidationOrder ==
    [][Validated =>
         LET first == FirstFailure(ntc.response, ntc.slave_addr)
         IN IF first = "function code" /\ ErrorBit(ntc.response)
            THEN /\ ntc'.state = "done"
                 /\ ntc'.result.kind = "Modbus exception"
                 /\ ntc'.result.code = ntc.response.byte_count
                 /\ ntc'.result.slave = ntc.slave_addr
                 /\ ntc'.attempt = ntc.attempt
                 /\ ntc'.device_failures = ntc.device_failures
                 /\ ntc'.network_retry_count = ntc.network_retry_count
            ELSE IF first = "ok"
            THEN ntc'.result.kind = "values"
            ELSE /\ ntc'.error = (IF first = "function code"
                                   THEN "Invalid function code" ELSE first)
                 /\ \/ /\ ntc'.state = "running"
                       /\ ntc'.attempt = ntc.attempt + 1
                    \/ /\ ntc'.state = "done"
                       /\ ntc'.result.kind \in {"Failed after attempts",
                                                 "Network unreachable"}]_vars

\* a response with the error bit, whose third byte is no valid byte count,
\* ended the read on the first pass with the exception code
C30_Witness ==
    /\ ntc.state = "done"
    /\ ntc.result.kind = "Modbus exception"
    /\ ntc.response.byte_count # expected_data_length
    /\ ntc.attempts = 1

\* ---------------------------------------------------------------------------
\* modbus_crc and the checksum verification of read_ntc_sensors, on frames
\* of bytes.  ntc.response is the frame with its checksum appended, and then
\* the same frame with one byte changed.  The frames are those of up to
\* MaxFrameLen bytes out of 0x00, 0x03, 0xFF, and b"123456789".
\* ---------------------------------------------------------------------------
MaxFrameLen == 2

\* crc.to_bytes(2, 'little') of the crc that starts as 0xFFFF.  Xor is ^ on
\* non-negative integers, CrcBits the passes of "for _ in range(8)", CrcBytes
\* "for byte in data" from byte i on (crc is never negative: the test makes
\* TLC evaluate crc before it goes on to the next byte).
modbus_crc(data) ==
    LET RECURSIVE Xor(_, _)
        Xor(a, b) ==
            IF a = 0 THEN b
            ELSE IF b = 0 THEN a
            ELSE ((a + b) % 2) + 2 * Xor(a \div 2, b \div 2)
        RECURSIVE CrcBits(_, _)
        CrcBits(crc, n) ==
            IF n = 0 THEN crc
            ELSE CrcBits(IF crc % 2 = 1 THEN Xor(crc \div 2, 40961) ELSE crc \div 2,
                         n - 1)
        RECURSIVE CrcBytes(_, _)
        CrcBytes(i, crc) ==
            IF crc < 0 \/ i > Len(data) THEN crc
            ELSE CrcBytes(i + 1, CrcBits(Xor(crc, data[i]), 8))
        crc == CrcBytes(1, 65535)
    IN <<crc % 256, crc \div 256>>

\* mutant: only the low byte of the checksum is compared
CrcValid_low_byte(response) ==
    modbus_crc(SubSeq(response, 1, Len(response) - 2))[1] = response[Len(response) - 1]

\* "calc_crc = modbus_crc(response[:-2])" and not "calc_crc != response[-2:]"
CrcValid(response) ==
    modbus_crc(SubSeq(response, 1, Len(response) - 2))
        = SubSeq(response, Len(response) - 1, Len(response))

CrcInit ==
    /\ pc = "call"
    /\ retries = 0
    /\ pairs = <<>>
    /\ alerts = {}
    /\ startup_failed = FALSE
    /\ startup_alerts = {}
    /\ balancer_failed = FALSE
    /\ balancing_active = FALSE
    /\ rest_elapsed = BalanceRestPeriodSeconds + 1
    /\ relays = {}
    /\ dcdc = FALSE
    /\ battery_voltages = <<>>
    /\ temps_alerts = {}
    /\ any_low_temp = FALSE
    /\ alert_needed = FALSE
    /\ all_alerts = {}
    /\ op = NoOp
    /\ alarm = FALSE
    /\ vread = NoVread
    /\ event_log = <<>>
    /\ alive_timestamp = 0
    /\ wd_thread = Nothing
    /\ clock = 0
    /\ sync = NoSync
    /\ web_data = [voltages |-> [i \in 1..num_series_banks |-> 0], alerts |-> {},
                   balancing |-> FALSE, system_status |-> "Initializing"]
    /\ topo = NoTopo
    /\ TempIdle
    /\ \E data \in UNION {[1..n -> {0, 3, 255}] : n \in 0..MaxFrameLen}
                     \cup {<<49, 50, 51, 52, 53, 54, 55, 56, 57>>} :
         ntc = [state |-> "framed", data |-> data,
                response |-> data \o modbus_crc(data), changed |-> 0]

\* one byte of the frame, payload or checksum, arrives with another value
CrcCorrupt ==
    /\ ntc.state = "framed"
    /\ \E i \in 1..Len(ntc.response) :
       \E byte \in (0..255) \ {ntc.response[i]} :
         ntc' = [ntc EXCEPT !.state = "corrupted", !.changed = i,
                            !.response[i] = byte]
    /\ UNCHANGED <<main_thread_vars, topo, temp_vars, vread, event_log, alive_timestamp, wd_thread, clock, sync>>

CrcNext ==
    \/ CrcCorrupt

SpecCrc == CrcInit /\ [][CrcNext]_vars

\* the frame b"123456789", whose CRC-16/MODBUS is 0x4B37
CheckFrame == <<49, 50, 51, 52, 53, 54, 55, 56, 57>>

\* C29: a frame with modbus_crc(frame) appended passes the checksum
\* verification, the same frame with one byte changed (payload or checksum)
\* fails it, and the checksum is the CRC-16 with polynomial 0xA001 and initial
\* value 0xFFFF, low byte first: 0x4B37 for b"123456789", 0xFFFF for b"".
C29_CrcRoundTrip ==
    /\ ntc.state = "framed" => CrcValid(ntc.response)
    /\ ntc.state = "corrupted" => ~CrcValid(ntc.response)
    /\ (ntc.state = "framed" /\ ntc.data = CheckFrame)
          => ntc.response = CheckFrame \o <<55, 75>>
    /\ (ntc.state = "framed" /\ ntc.data = <<>>) => ntc.response = <<255, 255>>

\* the second checksum byte of a two-byte frame arrived changed
C29_Witness ==
    /\ ntc.state = "corrupted"
    /\ Len(ntc.data) = 2
    /\ ntc.changed = Len(ntc.response)

\* a step in which set_relay_connection(op'.high, op'.low) is called: the
\* start of a balance operation or of a balance test of the self-test
RelaysSet == (pc = "poll" /\ pc' = "balancing") \/ pc = "st_pair"

\* C31: set_relay_connection(source, dest) for distinct configured banks
\* first deasserts all four relay lines and only then asserts lines, and
\* afterwards exactly the lines of relay_mapping for (source, dest) are
\* asserted; set_relay_connection(0, 0) asserts none and leaves all lines
\* deasserted.
C31_RelayOrder ==
    [][/\ (RelaysSet /\ op'.high # op'.low) =>
             LET writes == RelayWrites(op'.high, op'.low)
             IN /\ Len(writes) >= 4
                /\ \A i \in 1..4 : writes[i] = <<i - 1, FALSE>>
                /\ \A i \in 5..Len(writes) : writes[i][2] = TRUE
                /\ relays' = relay_mapping[<<op'.high, op'.low>>]
       /\ pc \in {"reset", "st_reset"} =>
             /\ \A i \in 1..Len(RelayWrites(0, 0)) : RelayWrites(0, 0)[i][2] = FALSE
             /\ relays' = {}]_vars

\* the lines of a pair of distinct banks are asserted
C31_Witness ==
    /\ pc \in {"balancing", "st_balancing"}
    /\ op.high # op.low
    /\ relays = relay_mapping[<<op.high, op.low>>]
    /\ relays # {}

\* C32: during a balance operation or balance test the converter is enabled
\* only while the relay lines mapped for the pair of the operation are
\* asserted; it is never on when set_relay_connection asserted nothing.
C32_ConverterNeedsRelays ==
    dcdc => /\ <<op.high, op.low>> \in DOMAIN relay_mapping
            /\ relays = relay_mapping[<<op.high, op.low>>]
            /\ relays # {}

\* C33: whenever balance_battery_voltages is called the source bank and the
\* destination bank are distinct, so equal bank voltages never lead to a
\* failed verification and a set latch.
C33_DistinctBanks ==
    (pc \in {"balancing", "reset", "verify", "publish"} /\ op.high # 0)
        => op.high # op.low

\* C34: a request accepted by api_balance is consumed by the main loop: it is
\* not pending when main clears balancing_active after an operation that
\* began before the request, and it is not pending while the latch keeps the
\* main loop from ever looking at balancing_active again.
C34_RequestConsumed ==
    /\ pc = "verify" => ~balancing_active
    /\ (pc \in {"poll", "publish"} /\ balancer_failed) => ~balancing_active

\* C35: a persisted calibration with total_channels offsets is used by the
\* process and never overwritten: save_offsets is called only when no valid
\* persisted calibration exists.
C35_PersistedCalibrationKept ==
    [][offsets_file # Nothing =>
          /\ offsets_file' = offsets_file
          /\ startup_set' => startup_offsets' = offsets_file]_vars

InStartup == pc \in {"startup", "st_loop", "st_pair", "st_balancing", "st_reset", "st_end"}

\* C36: startup_self_test terminates after at most StartupMaxRetries
\* attempts; when it returns startup_failed is False, whether an attempt
\* passed or the retries were exhausted; and a balancer_failed latch set
\* during the self-test is still set when the main loop starts.
C36_StartupTerminates ==
    /\ <>(~InStartup)
    /\ [][/\ (InStartup /\ pc' = "st_loop") => retries' < StartupMaxRetries
          /\ (InStartup /\ ~InStartup') => ~startup_failed'
          /\ (InStartup /\ balancer_failed) => balancer_failed']_vars

\* the retries were exhausted with a failed balance test: the main loop
\* starts with the alerts of the last attempt, the flag reset, the latch set
C36_Witness ==
    /\ pc = "poll"
    /\ battery_voltages = <<>>
    /\ startup_alerts # {}
    /\ ~startup_failed
    /\ balancer_failed

-----------------------------------------------------------------------------
(* The order, the delays and the ports of the unit reads: the temperature   *)
(* loop of startup_self_test (2485-2489) and of main (3168-3185).  topo     *)
(* holds the configured units, ntc the events of the running loop: a read   *)
(* with its unit and port, or the inter-unit sleep.                         *)

MaxUnits == 3

\* get_port_for_slave: the port at the unit's first index, else the default
get_port_for_slave(slave_addr, slave_addresses, slave_ports, default_port) ==
    IF \E k \in DOMAIN slave_addresses : slave_addresses[k] = slave_addr
    THEN LET idx == CHOOSE k \in DOMAIN slave_addresses :
                       /\ slave_addresses[k] = slave_addr
                       /\ \A j \in 1..(k - 1) : slave_addresses[j] # slave_addr
         IN  IF idx <= Len(slave_ports) THEN slave_ports[idx] ELSE default_port
    ELSE default_port

\* load_config 676-687: distinct unit addresses; modbus_slave_ports as
\* configured, of any length, or the default port once per unit; port 1 is
\* modbus_port
UnitsInit ==
    /\ pc = "u_startup"
    /\ retries = 0
    /\ pairs = <<>>
    /\ alerts = {}
    /\ startup_failed = FALSE
    /\ startup_alerts = {}
    /\ balancer_failed = FALSE
    /\ balancing_active = FALSE
    /\ rest_elapsed = BalanceRestPeriodSeconds + 1
    /\ relays = {}
    /\ dcdc = FALSE
    /\ battery_voltages = <<>>
    /\ temps_alerts = {}
    /\ any_low_temp = FALSE
    /\ alert_needed = FALSE
    /\ all_alerts = {}
    /\ op = NoOp
    /\ alarm = FALSE
    /\ vread = NoVread
    /\ event_log = <<>>
    /\ alive_timestamp = 0
    /\ wd_thread = Nothing
    /\ clock = 0
    /\ sync = NoSync
    /\ web_data = [voltages |-> [i \in 1..num_series_banks |-> 0], alerts |-> {},
                   balancing |-> FALSE, system_status |-> "Initializing"]
    /\ TempIdle
    /\ ntc = [i |-> 0, slept |-> FALSE, events |-> <<>>, polls |-> 0]
    /\ \E n \in 1..MaxUnits, m \in 1..MaxUnits :
       \E addresses \in [1..n -> 1..MaxUnits], ports \in [1..m -> {1, 2}] :
         /\ \A j, k \in 1..n : j # k => addresses[j] # addresses[k]
         /\ topo = [addresses |-> addresses, ports |-> ports, modbus_port |-> 1]

UnitsNext ==
    \* startup_self_test 2485-2489: the next unit, on its own port
    \/ /\ pc = "u_startup"
       /\ ntc.i < Len(topo.addresses)
       /\ \E addr \in {topo.addresses[ntc.i + 1]} :
          \E port_for_slave \in {get_port_for_slave(addr, topo.addresses,
                                                    topo.ports, topo.modbus_port)} :
            ntc' = [ntc EXCEPT !.i = @ + 1,
                               !.events = Append(@, <<"read", addr, port_for_slave>>)]
       /\ UNCHANGED <<main_thread_vars, topo, temp_vars, vread, event_log, alive_timestamp, wd_thread, clock, sync>>
    \* the self-test returns, main enters its loop
    \/ /\ pc = "u_startup"
       /\ ntc.i = Len(topo.addresses)
       /\ pc' = "u_poll"
       /\ ntc' = [ntc EXCEPT !.i = 0, !.events = <<>>]
       /\ UNCHANGED <<startup_vars, main_vars, balancer_failed, balancing_active,
                      rest_elapsed, relays, dcdc, op, web_data, alarm, topo,
                      temp_vars, vread, event_log, alive_timestamp, wd_thread, clock, sync>>
    \* main 3170-3173: "if i > 0: time.sleep(inter_delay)"
    \/ /\ pc = "u_poll"
       /\ ntc.i < Len(topo.addresses)
       /\ ntc.i > 0 /\ ~ntc.slept
       /\ ntc' = [ntc EXCEPT !.slept = TRUE, !.events = Append(@, <<"sleep">>)]
       /\ UNCHANGED <<main_thread_vars, topo, temp_vars, vread, event_log, alive_timestamp, wd_thread, clock, sync>>
    \* main 3175-3179: the next unit, on settings['modbus_port']
    \/ /\ pc = "u_poll"
       /\ ntc.i < Len(topo.addresses)
       /\ ntc.i > 0 => ntc.slept
       /\ ntc' = [ntc EXCEPT !.i = @ + 1, !.slept = FALSE,
                             !.events = Append(@, <<"read", topo.addresses[ntc.i + 1],
                                                    topo.modbus_port>>)]
       /\ UNCHANGED <<main_thread_vars, topo, temp_vars, vread, event_log, alive_timestamp, wd_thread, clock, sync>>
    \* the next iteration of "while True"; polls saturates at 1
    \/ /\ pc = "u_poll"
       /\ ntc.i = Len(topo.addresses)
       /\ ntc' = [ntc EXCEPT !.i = 0, !.events = <<>>, !.polls = 1]
       /\ UNCHANGED <<main_thread_vars, topo, temp_vars, vread, event_log, alive_timestamp, wd_thread, clock, sync>>

SpecUnits == UnitsInit /\ [][UnitsNext]_vars

\* C37: in every poll the units are read one after another in the order of
\* modbus_slave_addresses, with the inter-unit delay between consecutive
\* units and none before the first, each on the port configured for it
\* (get_port_for_slave), in the main loop exactly as in the self-test.
C37_UnitsInOrderOnTheirPorts ==
    LET events == ntc.events
        reads == SelectSeq(events, LAMBDA e : e[1] = "read")
    IN  pc \in {"u_startup", "u_poll"} =>
          /\ \A k \in 1..Len(reads) :
                /\ reads[k][2] = topo.addresses[k]
                /\ reads[k][3] = get_port_for_slave(reads[k][2], topo.addresses,
                                                    topo.ports, topo.modbus_port)
          /\ pc = "u_poll" =>
                \A k \in 1..Len(events) :
                   IF k % 2 = 1 THEN events[k][1] = "read" ELSE events[k][1] = "sleep"

-----------------------------------------------------------------------------
(* The event log: every site that appends to event_log trims it in the     *)
(* same way (1144-1147, 1636-1638, 1712-1714, 1823-1825, 2493-2495, ...).   *)
(* An entry is its timestamp and its text; clock counts the appends.        *)

MaxLogSize == 3
MaxAppends == 5

\* a variant that refuses the new entry when the log is full
LogEvent_drop_newest(log, entry, size) ==
    IF Len(log) + 1 > size THEN log ELSE Append(log, entry)

\* "event_log.append(...)", "if len(event_log) > settings.get('EventLogSize',
\* 20): event_log.pop(0)"
LogEvent(log, entry, size) ==
    LET appended == Append(log, entry)
    IN  IF Len(appended) > size THEN Tail(appended) ELSE appended

EventsInit ==
    /\ pc = "e_run"
    /\ retries = 0
    /\ pairs = <<>>
    /\ alerts = {}
    /\ startup_failed = FALSE
    /\ startup_alerts = {}
    /\ balancer_failed = FALSE
    /\ balancing_active = FALSE
    /\ rest_elapsed = BalanceRestPeriodSeconds + 1
    /\ relays = {}
    /\ dcdc = FALSE
    /\ battery_voltages = <<>>
    /\ temps_alerts = {}
    /\ any_low_temp = FALSE
    /\ alert_needed = FALSE
    /\ all_alerts = {}
    /\ op = NoOp
    /\ alarm = FALSE
    /\ vread = NoVread
    /\ sync = NoSync
    /\ web_data = [voltages |-> [i \in 1..num_series_banks |-> 0], alerts |-> {},
                   balancing |-> FALSE, system_status |-> "Initializing"]
    /\ TempIdle
    /\ ntc = NoNtc
    /\ event_log = <<>>
    /\ alive_timestamp = 0
    /\ wd_thread = Nothing
    /\ clock = 0
    /\ \E size \in 0..MaxLogSize : topo = [EventLogSize |-> size]

EventsNext ==
    \* an alert or a balancing message is logged
    \/ /\ clock < MaxAppends
       /\ clock' = clock + 1
       /\ \E text \in {"Invalid reading", "Zero voltage", "balancing started"} :
            event_log' = LogEvent(event_log, <<clock + 1, text>>, topo.EventLogSize)
       /\ UNCHANGED <<main_thread_vars, ntc, topo, temp_vars, vread, sync,
                      alive_timestamp, wd_thread>>

SpecEvents == EventsInit /\ [][EventsNext]_vars

\* C38: the event log is a bounded chronological FIFO: its length is at most
\* EventLogSize after every append, the entries keep their order of
\* insertion, and exactly the oldest entries are dropped, only when the
\* bound is exceeded: the log holds the last min(appends, EventLogSize)
\* entries in order.
C38_BoundedFifo ==
    pc = "e_run" =>
      /\ Len(event_log) <= topo.EventLogSize
      /\ Len(event_log) = IF clock < topo.EventLogSize THEN clock
                          ELSE topo.EventLogSize
      /\ \A k \in 1..Len(event_log) : event_log[k][1] = clock - Len(event_log) + k

\* a full log after two entries were dropped
C38_Witness ==
    /\ pc = "e_run"
    /\ topo.EventLogSize = MaxLogSize
    /\ Len(event_log) = MaxLogSize
    /\ event_log[1][1] = 3

-----------------------------------------------------------------------------
(* The watchdog pet thread against the main loop, in seconds.  main updates *)
(* alive_timestamp when the temperature reads of a poll have returned (the  *)
(* voltage reads, 1423, and the end of the poll, 3291) and then sleeps      *)
(* poll_interval; the reads of one poll take up to MaxReadSeconds (socket   *)
(* timeouts, "time.sleep(3)" and the backoff of the retries, 592-616); the  *)
(* rest of a poll takes no time here.                                       *)

pet_interval == 5
hang_threshold == 12
poll_interval == 10
MaxReadSeconds == 4
MaxClock == 30

\* main 3153-3162: the thread is started, alive_timestamp is set, the first
\* poll begins
WatchdogInit ==
    /\ pc = "w_temps"
    /\ retries = 0
    /\ pairs = <<>>
    /\ alerts = {}
    /\ startup_failed = FALSE
    /\ startup_alerts = {}
    /\ balancer_failed = FALSE
    /\ balancing_active = FALSE
    /\ rest_elapsed = BalanceRestPeriodSeconds + 1
    /\ relays = {}
    /\ dcdc = FALSE
    /\ battery_voltages = <<>>
    /\ temps_alerts = {}
    /\ any_low_temp = FALSE
    /\ alert_needed = FALSE
    /\ all_alerts = {}
    /\ op = NoOp
    /\ alarm = FALSE
    /\ vread = NoVread
    /\ sync = NoSync
    /\ web_data = [voltages |-> [i \in 1..num_series_banks |-> 0], alerts |-> {},
                   balancing |-> FALSE, system_status |-> "Initializing"]
    /\ TempIdle
    /\ topo = NoTopo
    /\ event_log = <<>>
    /\ clock = 0
    /\ alive_timestamp = 0
    /\ ntc = [state |-> "reading", started |-> 0]
    /\ wd_thread = [state |-> "running", next_check |-> 0, pets |-> 0]

WatchdogNext ==
    \* a second passes: no sleep is overslept, no read outlasts
    \* MaxReadSeconds, no check of the thread is late
    \/ /\ clock < MaxClock
       /\ pc = "w_sleep" => clock < alive_timestamp + poll_interval
       /\ pc = "w_temps" => clock - ntc.started < MaxReadSeconds
       /\ wd_thread.state = "running" => clock < wd_thread.next_check
       /\ clock' = clock + 1
       /\ UNCHANGED <<main_thread_vars, ntc, topo, temp_vars, vread, sync,
                      event_log, alive_timestamp, wd_thread>>
    \* main 3168-3297: the temperature reads have returned; the rest of the
    \* poll with "alive_timestamp = time.time()", then the sleep
    \/ /\ pc = "w_temps"
       /\ pc' = "w_sleep"
       /\ alive_timestamp' = clock
       /\ UNCHANGED <<startup_vars, main_vars, balancer_failed, balancing_active,
                      rest_elapsed, relays, dcdc, op, web_data, alarm, ntc, topo,
                      temp_vars, vread, sync, event_log, wd_thread, clock>>
    \* main 3297, 3168: the sleep is over, the reads of the next poll begin
    \/ /\ pc = "w_sleep"
       /\ clock = alive_timestamp + poll_interval
       /\ pc' = "w_temps"
       /\ ntc' = [ntc EXCEPT !.started = clock]
       /\ UNCHANGED <<startup_vars, main_vars, balancer_failed, balancing_active,
                      rest_elapsed, relays, dcdc, op, web_data, alarm, topo,
                      temp_vars, vread, sync, event_log, alive_timestamp,
                      wd_thread, clock>>
    \* the main thread hangs: it makes no further step
    \/ /\ pc = "w_temps"
       /\ pc' = "w_hung"
       /\ UNCHANGED <<startup_vars, main_vars, balancer_failed, balancing_active,
                      rest_elapsed, relays, dcdc, op, web_data, alarm, ntc, topo,
                      temp_vars, vread, sync, event_log, alive_timestamp,
                      wd_thread, clock>>
    \* watchdog_pet_thread 2295-2316: one pass of its loop
    \/ /\ wd_thread.state = "running"
       /\ clock = wd_thread.next_check
       /\ wd_thread' =
            IF clock - alive_timestamp > hang_threshold
            THEN [wd_thread EXCEPT !.state = "stopped"]
            ELSE [wd_thread EXCEPT !.pets = 1, !.next_check = clock + pet_interval]
       /\ UNCHANGED <<main_thread_vars, ntc, topo, temp_vars, vread, sync,
                      event_log, alive_timestamp, clock>>

SpecWatchdog == WatchdogInit /\ [][WatchdogNext]_vars

\* C39: the pet thread stops petting only on a true hang of the main thread:
\* while the main loop makes progress, alive_timestamp is never older than
\* hang_threshold when the thread checks it; and once the thread has
\* detected a hang it never pets again.
C39_StopsOnlyOnHang ==
    [][/\ (pc' \in {"w_temps", "w_sleep", "w_hung"} /\ wd_thread'.state = "stopped")
             => pc' = "w_hung"
       /\ (pc \in {"w_temps", "w_sleep", "w_hung"} /\ wd_thread.state = "stopped")
             => wd_thread' = wd_thread]_vars

====
